---- MODULE Spec2Model ----
(***************************************************************************)
(* A model of amethyst.core.obj: the Attr validator, the Object record     *)
(* with its dict-backed store and mutability flag, and the class-tagged    *)
(* JSON codec (toJSON / fromJSON / load_data).                             *)
(*                                                                         *)
(* Python values are tagged records [k |-> kind, v |-> payload]; a Python  *)
(* dict is a TLA+ function from key strings to values.  JSON text is       *)
(* modelled by the document it denotes (or as text that does not parse).   *)
(* Every call is one atomic step (the library is synchronous and           *)
(* single-threaded); its outcome is recorded in the variable last.         *)
(***************************************************************************)
EXTENDS Integers, Sequences, FiniteSets, TLC

VARIABLES
    heap,          \* dict objects: dict id -> contents (a free id holds the empty dict)
    self_dict,     \* obj.dict: instance -> dict id, 0 before the instance is constructed
    self_mutable,  \* obj._mutable_: instance -> BOOLEAN
    builds,        \* per instance: how many times a lazy builder has been called
    last,          \* the last call: [op, obj, args, exc, ret]
    classes,       \* the classes defined so far: class id -> [name, module, base, attrs]
    registered_encoders,  \* global_amethyst_encoders: class id -> encoder
    registered_hooks,     \* global_amethyst_hooks: tag -> decode function
    produced       \* how many times a default producer has been called

vars == <<heap, self_dict, self_mutable, builds, last,
          classes, registered_encoders, registered_hooks, produced>>

-----------------------------------------------------------------------------
(* Python values                                                           *)

PInt(n)         == [k |-> "int", v |-> n]
PStr(s)         == [k |-> "str", v |-> s]
PBool(b)        == [k |-> "bool", v |-> b]
PNone           == [k |-> "none", v |-> 0]
PList(q)        == [k |-> "list", v |-> q]
PSet(S)         == [k |-> "set", v |-> S]
PDict(m)        == [k |-> "dict", v |-> m]
POpaque         == [k |-> "object", v |-> 0]   \* object(): no encoder knows it
PObject(cls, m) == [k |-> "Object", v |-> [cls |-> cls, dict |-> m]]

EmptyDict == [q \in {} |-> PNone]
DictPut(m, key, val) == [q \in DOMAIN m \cup {key} |-> IF q = key THEN val ELSE m[q]]
DictDel(m, key) == [q \in DOMAIN m \ {key} |-> m[q]]
DictUpdate(m, n) == [q \in DOMAIN m \cup DOMAIN n |-> IF q \in DOMAIN n THEN n[q] ELSE m[q]]
DictGet(m, key, dflt) == IF key \in DOMAIN m THEN m[key] ELSE dflt

(* The outcome of a call: the exceptions it can end with (empty when it    *)
(* returns; more than one when the one raised depends on the iteration     *)
(* order of a dict) and the value it returns.                              *)
Return(val) == [excs |-> {}, val |-> val]
Raise(e)    == [excs |-> {e}, val |-> PNone]
RaiseAny(E) == [excs |-> E, val |-> PNone]
Raised(out) == out.excs # {}

coalesce(a, b) == IF a # PNone THEN a ELSE b

-----------------------------------------------------------------------------
(* Attr                                                                    *)

\* the strings int() parses, with their values
IntLiterals == {"1", "2", "3", "150"}
IntOfStr(s) == CASE s = "1" -> 1 [] s = "2" -> 2 [] s = "3" -> 3 [] s = "150" -> 150

\* int(value), the converter of Attr(int)
int(value) ==
    CASE value.k = "int" -> Return(value)
      [] value.k = "bool" -> Return(PInt(IF value.v THEN 1 ELSE 0))
      [] value.k = "str" -> IF value.v \in IntLiterals
                               THEN Return(PInt(IntOfStr(value.v)))
                               ELSE Raise("ValueError")
      [] OTHER -> Raise("TypeError")

\* str(value): the text of a value (every value has one)
Digit(d) ==
    CASE d = 0 -> "0" [] d = 1 -> "1" [] d = 2 -> "2" [] d = 3 -> "3" [] d = 4 -> "4"
      [] d = 5 -> "5" [] d = 6 -> "6" [] d = 7 -> "7" [] d = 8 -> "8" [] d = 9 -> "9"
RECURSIVE Decimal(_)
Decimal(n) ==
    IF n < 0 THEN "-" \o Decimal(0 - n)
    ELSE IF n < 10 THEN Digit(n)
    ELSE Decimal(n \div 10) \o Digit(n % 10)
str(value) ==
    CASE value.k = "str" -> Return(value)
      [] value.k = "int" -> Return(PStr(Decimal(value.v)))
      [] value.k = "bool" -> Return(PStr(IF value.v THEN "True" ELSE "False"))
      [] value.k = "none" -> Return(PStr("None"))
      [] OTHER -> Return(PStr("<repr>"))

\* the zero-argument producers used as default= or builder=
Producer(name) == [k |-> "callable", v |-> name]
\* a function made by one of the Attr operators: it closes over self and other
Closure(op, self, other) == [k |-> "closure", v |-> [op |-> op, self |-> self, other |-> other]]
\* an Attr object used as a value (it is callable)
AttrValue(attr) == [k |-> "Attr", v |-> attr]
callable(x) == x.k \in {"callable", "closure", "Attr"}
BuilderValue == PInt(7)
CallProducer(f) ==
    CASE f.v = "list" -> PList(<<>>)
      [] f.v = "build" -> BuilderValue

Attr(convert, default, builder) ==
    [convert |-> convert, isa |-> {}, verify |-> "none",
     default |-> default, builder |-> builder, OVERRIDE |-> FALSE]

get_default(attr) ==
    IF callable(attr.default) THEN CallProducer(attr.default) ELSE attr.default

\* a == b for the values of the model: by value, and a bool equals its int
Numeric(x) == x.k \in {"int", "bool"}
NumOf(x) == IF x.k = "bool" THEN (IF x.v THEN 1 ELSE 0) ELSE x.v
PyEq(a, b) ==
    IF Numeric(a) /\ Numeric(b) THEN NumOf(a) = NumOf(b)
    ELSE a.k = b.k /\ a = b

\* a comparison that is strict where the source's is inclusive, and inclusive
\* where it is strict
Compare_swapped(op, val, other) ==
    IF Numeric(val) /\ Numeric(other)
      THEN Return(PBool(CASE op = "lt" -> NumOf(val) <= NumOf(other)
                          [] op = "le" -> NumOf(val) < NumOf(other)
                          [] op = "ge" -> NumOf(val) > NumOf(other)
                          [] op = "gt" -> NumOf(val) >= NumOf(other)))
      ELSE Raise("TypeError")

\* val < other, val <= other, ...: numbers are ordered, a number and a
\* str or None are not (TypeError)
Compare(op, val, other) ==
    IF Numeric(val) /\ Numeric(other)
      THEN Return(PBool(CASE op = "lt" -> NumOf(val) < NumOf(other)
                          [] op = "le" -> NumOf(val) <= NumOf(other)
                          [] op = "ge" -> NumOf(val) >= NumOf(other)
                          [] op = "gt" -> NumOf(val) > NumOf(other)))
      ELSE Raise("TypeError")

Verify(verify, value) ==
    CASE verify = "positive" -> value.k = "int" /\ value.v > 0

RECURSIVE Convert(_, _), Attr_call(_, _)

\* the statements of __call__ after the conversion, on its outcome c: isa,
\* then verify
Attr_checks(attr, c) ==
    IF Raised(c) THEN c
    ELSE IF attr.isa # {} /\ c.val.k \notin attr.isa THEN Raise("ValueError")
    ELSE IF attr.verify # "none" /\ ~Verify(attr.verify, c.val) THEN Raise("ValueError")
    ELSE c

\* "if not (val < other): raise ValueError": r is the outcome of self(value),
\* t the outcome of the comparison
compared(r, t) ==
    IF Raised(t) THEN t
    ELSE IF t.val.v THEN r
    ELSE Raise("ValueError")

\* the right operand of | applied to value: a callable is called, anything
\* else is returned when value equals it; miss is the outcome otherwise
other_call(other, value, miss) ==
    IF callable(other) THEN Convert(other, value)
    ELSE IF PyEq(value, other) THEN Return(other)
    ELSE miss

\* __ror__: the outcome l of the left operand stands unless it is ValueError
ror_result(l, r) == IF l.excs = {"ValueError"} THEN r ELSE l

\* the function convert(value) that __lt__ __le__ __ge__ __gt__ __or__ __ror__
\* define, and the lambdas of __and__, int() and __abs__, r being the outcome
\* of self(value)
closure_call(c, value, r) ==
    CASE c.op \in {"lt", "le", "ge", "gt"} ->
            IF Raised(r) THEN r
            ELSE compared(r, Compare(c.op, r.val, c.other))
      [] c.op = "or" ->
            IF r.excs # {"ValueError"} THEN r
            ELSE other_call(c.other, value, r)
      [] c.op = "ror" ->
            ror_result(other_call(c.other, value, Raise("ValueError")), r)
      [] c.op = "and" ->
            IF Raised(r) THEN r
            ELSE IF callable(c.other) THEN Convert(c.other, r.val)
            ELSE Raise("TypeError")
      [] c.op = "int" -> IF Raised(r) THEN r ELSE int(r.val)
      [] c.op = "abs" ->
            IF Raised(r) THEN r
            ELSE IF Numeric(r.val)
              THEN Return(PInt(IF NumOf(r.val) < 0 THEN 0 - NumOf(r.val) ELSE NumOf(r.val)))
            ELSE Raise("TypeError")

\* convert(value) for the callables an Attr holds as convert=, and other(value)
\* for the callable right operand of | : a builtin, another Attr, or the
\* function made by __lt__ __le__ __ge__ __gt__ __or__ __ror__
Convert(convert, value) ==
    CASE convert.k = "callable" ->
            (CASE convert.v = "int" -> int(value)
               [] convert.v = "str" -> str(value))
      [] convert.k = "Attr" -> Attr_call(convert.v, value)
      [] convert.k = "closure" ->
            closure_call(convert.v, value, Attr_call(convert.v.self, value))

\* Attr.__call__: convert, then isa, then verify
Attr_call(attr, value) ==
    Attr_checks(attr, IF attr.convert # PNone THEN Convert(attr.convert, value)
                      ELSE Return(value))

\* the operators that make a new Attr from self and other; the new Attr
\* carries OVERRIDE (for | and & : of either operand) and doc over, and no
\* default or builder
Composed(op, self, other) ==
    [convert |-> Closure(op, self, other), isa |-> {}, verify |-> "none",
     default |-> PNone, builder |-> PNone,
     OVERRIDE |-> IF op \in {"or", "ror", "and"}
                    THEN self.OVERRIDE \/ (other.k = "Attr" /\ other.v.OVERRIDE)
                    ELSE self.OVERRIDE]
__lt__(self, other)  == Composed("lt", self, other)
__le__(self, other)  == Composed("le", self, other)
__ge__(self, other)  == Composed("ge", self, other)
__gt__(self, other)  == Composed("gt", self, other)
__or__(self, other)  == Composed("or", self, other)
__ror__(self, other) == Composed("ror", self, other)
__and__(self, other) == Composed("and", self, other)
__abs__(self)        == Composed("abs", self, PNone)
\* Attr.int(): the transform method
Attr_int(self)       == Composed("int", self, PNone)

-----------------------------------------------------------------------------
(* Classes: Object and three subclasses defined with the default settings  *)
(*     class Obj(Object):   foo = Attr(int)                                *)
(*                          bar = Attr(int, default=3, builder=build)      *)
(*                          baz = Attr(builder=build)                      *)
(*     class Sub(Obj): pass                                                *)
(*     class Unrel(Object): foo = Attr(int)                                *)

Classes == {"Object", "Obj", "Sub", "Unrel"}

\* isinstance(x, cls): the classes an instance of c is an instance of
Ancestors(c) ==
    CASE c = "Object" -> {"Object"}
      [] c = "Obj"    -> {"Obj", "Object"}
      [] c = "Sub"    -> {"Sub", "Obj", "Object"}
      [] c = "Unrel"  -> {"Unrel", "Object"}

ObjAttrs ==
    [foo |-> Attr(Producer("int"), PNone, PNone),
     bar |-> Attr(Producer("int"), PInt(3), Producer("build")),
     baz |-> Attr(PNone, PNone, Producer("build"))]

\* an object with an identity: the one the class body made (0), or the one
\* the n-th call of a producer of new objects made
Ref(n) == [k |-> "ref", v |-> n]

\* class Obj4(Object): foo = Attr(int, default=3)
\*                      bar = Attr(default=list)
\*                      baz = Attr(default=[])
Obj4Attrs ==
    [foo |-> Attr(Producer("int"), PInt(3), PNone),
     bar |-> Attr(PNone, Producer("list"), PNone),
     baz |-> Attr(PNone, Ref(0), PNone)]

attrs_(c) ==
    CASE c = "Object" -> EmptyDict
      [] c \in {"Obj", "Sub"} -> ObjAttrs
      [] c = "Unrel"  -> [foo |-> Attr(Producer("int"), PNone, PNone)]

dundername(c) ==
    CASE c = "Object" -> "__amethyst.core.obj.Object__"
      [] c = "Obj"    -> "__test.Obj__"
      [] c = "Sub"    -> "__test.Sub__"
      [] c = "Unrel"  -> "__test.Unrel__"

amethyst_includeclass    == PBool(TRUE)
amethyst_verifyclass     == PBool(TRUE)
amethyst_import_strategy == PStr("strict")
amethyst_classhint_style == PStr("flat")


-----------------------------------------------------------------------------
(* Type registry and schema builder.  Class objects are named by ids; the  *)
(* two global tables are state (registered_encoders, registered_hooks), and *)
(* so is the table of the classes a class statement has defined (classes).  *)

\* the class objects that exist before any class statement of the program
BuiltinTypes == {"set", "frozenset"}
\* "__{module}.{name}__" for the classes of module test
TagOf(module, name) == "__" \o module \o "." \o name \o "__"
ObjectTag == TagOf("amethyst.core.obj", "Object")

\* a function object: what it does (fn) and the class it closes over
Fn(fn, cls) == [fn |-> fn, cls |-> cls]
\* the arguments the metaclass passes: lambda obj: obj.dict, and
\* lambda obj: new_cls().load_data(obj, verifyclass=False)
EncodeOf(cls) == Fn("obj.dict", "")
DecodeOf(cls) == Fn("load_data", cls)

\* the entry register_amethyst_type stores for cls: a lambda closing over
\* name, encode and wrap_encode
Encoder(name, encode, wrap_encode) ==
    [name |-> name, encode |-> encode, wrap_encode |-> wrap_encode]

\* the tables after the two registrations made when the module is imported,
\* and after class Object itself has been defined
InitialEncoders ==
    [c \in BuiltinTypes \cup {"Object"} |->
        CASE c = "set"       -> Encoder("__set__", Fn("list", ""), TRUE)
          [] c = "frozenset" -> Encoder("__frozenset__", Fn("list", ""), TRUE)
          [] c = "Object"    -> Encoder(ObjectTag, EncodeOf("Object"), TRUE)]
InitialHooks ==
    [t \in {"__set__", "__frozenset__", ObjectTag} |->
        CASE t = "__set__"       -> Fn("set", "")
          [] t = "__frozenset__" -> Fn("frozenset", "")
          [] t = ObjectTag       -> DecodeOf("Object")]
InitialClasses ==
    [c \in {"Object"} |-> [name |-> "Object", module |-> "amethyst.core.obj",
                           base |-> "", attrs |-> EmptyDict]]

\* a register_amethyst_type that always overwrites
register_amethyst_type_overwriting(encoders, hooks, cls, module, clsname, encode, decode, name, overwrite, wrap_encode) ==
    LET tag == IF name = PNone THEN TagOf(module, clsname) ELSE name.v
    IN  [excs |-> {},
         encoders |-> DictPut(encoders, cls, Encoder(tag, encode, wrap_encode)),
         hooks |-> DictPut(hooks, tag, decode)]

\* register_amethyst_type.  name is a tag, or PNone for the default tag of cls
\* (module and clsname are cls.__module__ and cls.__name__)
register_amethyst_type(encoders, hooks, cls, module, clsname, encode, decode, name, overwrite, wrap_encode) ==
    LET tag == IF name = PNone THEN TagOf(module, clsname) ELSE name.v
    IN  IF cls \in DOMAIN encoders /\ ~overwrite
          THEN [excs |-> {"ValueError"}, encoders |-> encoders, hooks |-> hooks]
        ELSE IF tag \in DOMAIN hooks /\ ~overwrite
          THEN [excs |-> {"ValueError"}, encoders |-> encoders, hooks |-> hooks]
        ELSE [excs |-> {},
              encoders |-> DictPut(encoders, cls, Encoder(tag, encode, wrap_encode)),
              hooks |-> DictPut(hooks, tag, decode)]

\* names that are attributes of class Object itself (some of its methods)
ObjectMembers == {"get", "set", "update", "dict", "toJSON", "load_data"}

\* a hasattr that finds nothing
hasattr_never(table, base, name) == FALSE

\* hasattr(new_cls, name) for a name taken out of the class body: the name
\* is an attribute of a base class, a field's property or any other member
hasattr(table, base, name) ==
    name \in ObjectMembers \/ name \in DOMAIN table[base].attrs

\* the OVERRIDE=True keyword of Attr()
Override(attr) == [attr EXCEPT !.OVERRIDE = TRUE]

\* AttrsMetaclass.__new__ for "class clsname(base): <new_attrs>" in module
\* test; cls is the id of the new class object, register is the class
\* body's amethyst_register_type (True when the body does not set it)
AttrsMetaclass_new(table, encoders, hooks, cls, clsname, base, new_attrs, register) ==
    LET reg == IF register
                 THEN register_amethyst_type(encoders, hooks, cls, "test", clsname,
                                             EncodeOf(cls), DecodeOf(cls), PNone, FALSE, TRUE)
                 ELSE [excs |-> {}, encoders |-> encoders, hooks |-> hooks]
        dup == {name \in DOMAIN new_attrs :
                    ~new_attrs[name].OVERRIDE /\ hasattr(table, base, name)}
    IN  IF reg.excs # {}
          THEN [excs |-> reg.excs, classes |-> table, encoders |-> encoders, hooks |-> hooks]
        ELSE IF dup # {}
          THEN [excs |-> {"DuplicateAttributeException"}, classes |-> table,
                encoders |-> reg.encoders, hooks |-> reg.hooks]
        ELSE [excs |-> {},
              classes |-> DictPut(table, cls,
                             [name |-> clsname, module |-> "test", base |-> base,
                              attrs |-> DictUpdate(table[base].attrs, new_attrs)]),
              encoders |-> reg.encoders, hooks |-> reg.hooks]

-----------------------------------------------------------------------------
(* Validation                                                              *)

\* new_data that never copies d
new_data_empty(d, strategy) == [dict |-> EmptyDict, fresh |-> TRUE]

\* new_data that builds the sloppy result in d itself
new_data_inplace(d, strategy) ==
    [dict |-> IF strategy = PStr("sloppy") THEN d ELSE EmptyDict,
     fresh |-> strategy # PStr("sloppy")]

\* data = d.copy() if strategy == "sloppy" else dict(): the dict the result
\* is built in.  fresh: it is a new dict object, not d itself.
new_data(d, strategy) ==
    [dict |-> IF strategy = PStr("sloppy") THEN d ELSE EmptyDict, fresh |-> TRUE]

\* Object.validate_data: a new dict of the validated declared fields of d,
\* the eager defaults of the absent ones and (sloppy) the other keys of d
validate_data(cls, d, import_strategy) ==
    LET strategy  == coalesce(import_strategy, amethyst_import_strategy)
        A         == attrs_(cls)
        copied    == new_data(d, strategy).dict
        keys      == IF strategy = PStr("strict") THEN DOMAIN d \ DOMAIN A ELSE {}
        present   == DOMAIN A \cap DOMAIN d
        res(name) == Attr_call(A[name], d[name])
        failed    == UNION {res(name).excs : name \in present}
        defaulted == {name \in DOMAIN A \ DOMAIN d : A[name].default # PNone}
        data      == [q \in DOMAIN copied \cup present \cup defaulted |->
                        IF q \in present THEN res(q).val
                        ELSE IF q \in defaulted THEN get_default(A[q])
                        ELSE copied[q]]
    IN  IF failed # {} THEN RaiseAny(failed)
        ELSE IF keys # {} THEN Raise("ValueError")
        ELSE Return(PDict(data))

\* Object.validate_update: a new dict of the validated keys of d only
validate_update(cls, d, import_strategy) ==
    LET strategy  == coalesce(import_strategy, amethyst_import_strategy)
        A         == attrs_(cls)
        present   == DOMAIN A \cap DOMAIN d
        res(key)  == Attr_call(A[key], d[key])
        failed    == UNION {res(key).excs : key \in present}
                        \cup (IF strategy = PStr("strict") /\ DOMAIN d \ DOMAIN A # {}
                                THEN {"ValueError"} ELSE {})
        copied    == new_data(d, strategy).dict
        data      == [q \in DOMAIN copied \cup present |->
                        IF q \in present THEN res(q).val ELSE copied[q]]
    IN  IF failed # {} THEN RaiseAny(failed) ELSE Return(PDict(data))

\* Object.load_data after assert_mutable.  popped: the dict that was passed
\* (not an unwrapped inner one) has had its "__class__" key removed.
load_data(cls, data, import_strategy, verifyclass) ==
    LET verify0 == coalesce(verifyclass, amethyst_verifyclass)
        verify1 == IF data.k = "Object" /\ cls \in Ancestors(data.v.cls)
                     THEN PBool(FALSE) ELSE verify0
        data1   == IF data.k = "Object" THEN PDict(data.v.dict) ELSE data
        fail    == [excs |-> {"ValueError"}, val |-> PNone, popped |-> FALSE]
    IN  IF data1.k # "dict" THEN fail
        ELSE
        LET wrapped == Cardinality(DOMAIN data1.v) = 1 /\ dundername(cls) \in DOMAIN data1.v
            data2   == IF wrapped THEN data1.v[dundername(cls)] ELSE data1
            verify2 == IF wrapped THEN PBool(FALSE) ELSE verify1
        IN  IF data2.k # "dict" THEN fail
            ELSE IF verify2.v /\ DictGet(data2.v, "__class__", PNone) # PStr(dundername(cls))
                 THEN fail
            ELSE LET result(out) == [excs |-> out.excs, val |-> out.val, popped |-> ~wrapped]
                 IN  result(validate_data(cls, DictDel(data2.v, "__class__"), import_strategy))

-----------------------------------------------------------------------------
(* JSON                                                                    *)

JNum(n)  == [k |-> "jnum", v |-> n]
JStr(s)  == [k |-> "jstr", v |-> s]
JBool(b) == [k |-> "jbool", v |-> b]
JNull    == [k |-> "jnull", v |-> 0]
JArr(q)  == [k |-> "jarr", v |-> q]
JObj(m)  == [k |-> "jobj", v |-> m]
\* a str holding JSON text: the document it denotes, or text that is not JSON
JText(j) == [k |-> "text", v |-> j]
NotJSON  == [k |-> "text", v |-> [k |-> "garbage", v |-> 0]]

\* list(s) for a set s, in the one order the model fixes
RECURSIVE list_of_set(_)
list_of_set(S) ==
    IF S = {} THEN <<>>
    ELSE LET x == CHOOSE y \in S : TRUE IN <<x>> \o list_of_set(S \ {x})

\* register_amethyst_type(set, list, set, name="__set__") and the classes
\* registered by the metaclass: the key each global encoder wraps with
global_amethyst_encoders(obj) ==
    CASE obj.k = "set"       -> Return(PDict([q \in {"__set__"} |-> PList(list_of_set(obj.v))]))
      [] obj.k = "frozenset" -> Return(PDict([q \in {"__frozenset__"} |-> PList(list_of_set(obj.v))]))
      [] obj.k = "Object"    -> Return(PDict([q \in {dundername(obj.v.cls)} |-> PDict(obj.v.dict)]))
      [] OTHER               -> Raise("TypeError")

\* cls._jsonencoders, cls._jsonhooks, as dicts of function names.  Only
\*     class Hooked(Object):
\*         jsonencoders = { set: (lambda obj: { "__myset__": list(obj) }) }
\*         jsonhooks    = { "__set__": (lambda obj: "BOB"),
\*                          "__bob__": (lambda obj: "BOB") }
\* declares any
jsonencoders_(cls) == IF cls = "Hooked" THEN [set |-> "myset"] ELSE EmptyDict
jsonhooks_(cls) ==
    IF cls = "Hooked" THEN [q \in {"__set__", "__bob__"} |-> "bob"] ELSE EmptyDict

\* the functions of the local tables, called on obj
local_call(fn, obj) ==
    CASE fn = "myset" -> Return(PDict([q \in {"__myset__"} |-> PList(list_of_set(obj.v))]))
      [] fn = "bob"   -> Return(PStr("BOB"))

\* a JSONEncoder that looks in the global table first
JSONEncoder_global_first(cls, obj) ==
    IF ~Raised(global_amethyst_encoders(obj)) THEN global_amethyst_encoders(obj)
    ELSE IF obj.k \in DOMAIN jsonencoders_(cls)
      THEN local_call(jsonencoders_(cls)[obj.k], obj)
    ELSE Raise("TypeError")

\* Object.JSONEncoder: the local table, then the global one
JSONEncoder(cls, obj) ==
    IF obj.k \in DOMAIN jsonencoders_(cls) THEN local_call(jsonencoders_(cls)[obj.k], obj)
    ELSE global_amethyst_encoders(obj)

\* json.dumps(obj, default=self.JSONEncoder)
RECURSIVE json_dumps(_, _)
json_dumps(cls, obj) ==
    CASE obj.k = "int"  -> Return(JNum(obj.v))
      [] obj.k = "str"  -> Return(JStr(obj.v))
      [] obj.k = "bool" -> Return(JBool(obj.v))
      [] obj.k = "none" -> Return(JNull)
      [] obj.k = "list" ->
            LET part == [i \in DOMAIN obj.v |-> json_dumps(cls, obj.v[i])]
                failed == UNION {part[i].excs : i \in DOMAIN obj.v}
            IN  IF failed # {} THEN RaiseAny(failed)
                ELSE Return(JArr([i \in DOMAIN obj.v |-> part[i].val]))
      [] obj.k = "dict" ->
            LET part == [q \in DOMAIN obj.v |-> json_dumps(cls, obj.v[q])]
                failed == UNION {part[q].excs : q \in DOMAIN obj.v}
            IN  IF failed # {} THEN RaiseAny(failed)
                ELSE Return(JObj([q \in DOMAIN obj.v |-> part[q].val]))
      [] OTHER ->
            LET enc == JSONEncoder(cls, obj)
            IN  IF Raised(enc) THEN enc ELSE json_dumps(cls, enc.val)

\* set(v) / frozenset(v), the decode functions of "__set__" and "__frozenset__"
\* (every str the model passes here is one character long)
Unhashable == {"list", "dict", "set"}
set_of(kind, v) ==
    CASE v.k = "list" ->
            IF \E i \in DOMAIN v.v : v.v[i].k \in Unhashable THEN Raise("TypeError")
            ELSE Return([k |-> kind, v |-> {v.v[i] : i \in DOMAIN v.v}])
      [] v.k = "dict"   -> Return([k |-> kind, v |-> {PStr(q) : q \in DOMAIN v.v}])
      [] v.k = "Object" -> Return([k |-> kind, v |-> {PStr(q) : q \in DOMAIN v.v.dict}])
      [] v.k = "str"    -> Return([k |-> kind, v |-> {v}])
      [] v.k \in {"set", "frozenset"} -> Return([k |-> kind, v |-> v.v])
      [] OTHER -> Raise("TypeError")

\* an __init__ loop that sets every eager default, present key or not
init_defaults_overwriting(A, store, n) ==
    LET defaulted == {name \in DOMAIN A : A[name].default # PNone}
    IN  [dict |-> [q \in DOMAIN store \cup defaulted |->
                      IF q \in defaulted THEN A[q].default ELSE store[q]],
         produced |-> n]

\* self.default() as call number n of the producers: list() makes a new object
get_default_new(attr, n) ==
    IF attr.default.v = "list" THEN Ref(n) ELSE CallProducer(attr.default)

\* the loop that ends Object.__init__, on self.dict = store, after n producer
\* calls: every eager default whose key is absent is set, a producer being
\* called once for each such key
init_defaults(A, store, n) ==
    LET defaulted == {name \in DOMAIN A \ DOMAIN store : A[name].default # PNone}
        called == {name \in defaulted : callable(A[name].default)}
        order == CHOOSE f \in [called -> 1..Cardinality(called)] :
                    \A a, b \in called : a # b => f[a] # f[b]
    IN  [dict |-> [q \in DOMAIN store \cup defaulted |->
                      IF q \in DOMAIN store THEN store[q]
                      ELSE IF q \in called THEN get_default_new(A[q], n + order[q])
                      ELSE A[q].default],
         produced |-> n + Cardinality(called)]

\* Object.__init__ (defaults only): cls() builds its dict from the eager defaults
new_dict(cls, kwargs) ==
    LET A == attrs_(cls)
        defaulted == {name \in DOMAIN A \ DOMAIN kwargs : A[name].default # PNone}
    IN  [q \in DOMAIN kwargs \cup defaulted |->
            IF q \in DOMAIN kwargs THEN kwargs[q] ELSE get_default(A[q])]

\* global_amethyst_hooks: the built-in keys and the tag of every registered class
global_hook_keys == {"__set__", "__frozenset__"} \cup {dundername(c) : c \in Classes}
global_amethyst_hooks(key, obj) ==
    CASE key = "__set__"       -> set_of("set", obj)
      [] key = "__frozenset__" -> set_of("frozenset", obj)
      [] OTHER ->
            \* decode = lambda obj: new_cls().load_data(obj, verifyclass=False)
            LET c == CHOOSE c \in Classes : dundername(c) = key
                out == load_data(c, obj, PNone, PBool(FALSE))
            IN  IF Raised(out) THEN RaiseAny(out.excs)
                ELSE Return(PObject(c, out.val.v))

\* JSONObjectHook that decodes nothing
JSONObjectHook_off(cls, obj) == Return(obj)

\* Object.JSONObjectHook
JSONObjectHook(cls, obj) ==
    IF obj.k = "dict" /\ Cardinality(DOMAIN obj.v) = 1
    THEN LET key == CHOOSE q \in DOMAIN obj.v : TRUE
         IN  IF key \in DOMAIN jsonhooks_(cls)
               THEN local_call(jsonhooks_(cls)[key], obj.v[key])
             ELSE IF key \in global_hook_keys THEN global_amethyst_hooks(key, obj.v[key])
             ELSE Return(obj)
    ELSE Return(obj)

\* json.loads(data, object_hook=self.JSONObjectHook) on parsed text
RECURSIVE json_value(_, _)
json_value(cls, j) ==
    CASE j.k = "jnum"  -> Return(PInt(j.v))
      [] j.k = "jstr"  -> Return(PStr(j.v))
      [] j.k = "jbool" -> Return(PBool(j.v))
      [] j.k = "jnull" -> Return(PNone)
      [] j.k = "jarr"  ->
            LET part == [i \in DOMAIN j.v |-> json_value(cls, j.v[i])]
                failed == UNION {part[i].excs : i \in DOMAIN j.v}
            IN  IF failed # {} THEN RaiseAny(failed)
                ELSE Return(PList([i \in DOMAIN j.v |-> part[i].val]))
      [] j.k = "jobj"  ->
            LET part == [q \in DOMAIN j.v |-> json_value(cls, j.v[q])]
                failed == UNION {part[q].excs : q \in DOMAIN j.v}
            IN  IF failed # {} THEN RaiseAny(failed)
                ELSE JSONObjectHook(cls, PDict([q \in DOMAIN j.v |-> part[q].val]))

json_loads(cls, data) ==
    IF data.v.k = "garbage" THEN Raise("ValueError") ELSE json_value(cls, data.v)


-----------------------------------------------------------------------------
(* Object methods, as functions of the instance's flag and dict.  Each     *)
(* returns [excs, val, dict]: dict is the contents of self.dict afterwards.*)

Effect(excs, val, dict) == [excs |-> excs, val |-> val, dict |-> dict]

\* assert_mutable without its check
assert_mutable_unchecked(mutable) == {}

\* Object.assert_mutable: the exception it raises, if any
assert_mutable(mutable) ==
    IF ~mutable THEN {"ImmutableObjectException"} ELSE {}

__len__(store) == Effect({}, PInt(Cardinality(DOMAIN store)), store)
__contains__(store, key) == Effect({}, PBool(key \in DOMAIN store), store)

__getitem__(store, key) ==
    IF key \in DOMAIN store THEN Effect({}, store[key], store)
    ELSE Effect({"KeyError"}, PNone, store)

__setitem__(mutable, store, key, value) ==
    IF assert_mutable(mutable) # {} THEN Effect(assert_mutable(mutable), PNone, store)
    ELSE Effect({}, PNone, DictPut(store, key, value))

__delitem__(mutable, store, key) ==
    IF assert_mutable(mutable) # {} THEN Effect(assert_mutable(mutable), PNone, store)
    ELSE IF key \notin DOMAIN store THEN Effect({"KeyError"}, PNone, store)
    ELSE Effect({}, PNone, DictDel(store, key))

get(store, key, dflt) == Effect({}, DictGet(store, key, dflt), store)

\* fget that returns the built value without storing it
fget_uncached(attr, name, store) ==
    IF name \in DOMAIN store
    THEN [excs |-> {}, val |-> store[name], dict |-> store, built |-> FALSE]
    ELSE IF attr.default # PNone
    THEN [excs |-> {}, val |-> get_default(attr),
          dict |-> DictPut(store, name, get_default(attr)), built |-> FALSE]
    ELSE IF attr.builder # PNone
    THEN [excs |-> {}, val |-> CallProducer(attr.builder), dict |-> store, built |-> TRUE]
    ELSE [excs |-> {}, val |-> PNone, dict |-> store, built |-> FALSE]

\* an accessor for which a field with neither default nor builder is undefined
fget_undefined(attr, name, store) ==
    IF name \in DOMAIN store
    THEN [excs |-> {}, val |-> store[name], dict |-> store, built |-> FALSE]
    ELSE IF attr.default # PNone
    THEN [excs |-> {}, val |-> get_default(attr),
          dict |-> DictPut(store, name, get_default(attr)), built |-> FALSE]
    ELSE IF attr.builder # PNone
    THEN [excs |-> {}, val |-> CallProducer(attr.builder),
          dict |-> DictPut(store, name, CallProducer(attr.builder)), built |-> TRUE]
    ELSE [excs |-> {"AttributeError"}, val |-> PNone, dict |-> store, built |-> FALSE]

\* an accessor that stores the None it returns
fget_vivifying(attr, name, store) ==
    IF name \in DOMAIN store
    THEN [excs |-> {}, val |-> store[name], dict |-> store, built |-> FALSE]
    ELSE IF attr.default # PNone
    THEN [excs |-> {}, val |-> get_default(attr),
          dict |-> DictPut(store, name, get_default(attr)), built |-> FALSE]
    ELSE IF attr.builder # PNone
    THEN [excs |-> {}, val |-> CallProducer(attr.builder),
          dict |-> DictPut(store, name, CallProducer(attr.builder)), built |-> TRUE]
    ELSE [excs |-> {}, val |-> PNone, dict |-> DictPut(store, name, PNone), built |-> FALSE]

\* Attr.build_property: the accessors of a declared field.  built: the lazy
\* builder was called.
fget(attr, name, store) ==
    IF name \in DOMAIN store
    THEN [excs |-> {}, val |-> store[name], dict |-> store, built |-> FALSE]
    ELSE IF attr.default # PNone
    THEN [excs |-> {}, val |-> get_default(attr),
          dict |-> DictPut(store, name, get_default(attr)), built |-> FALSE]
    ELSE IF attr.builder # PNone
    THEN [excs |-> {}, val |-> CallProducer(attr.builder),
          dict |-> DictPut(store, name, CallProducer(attr.builder)), built |-> TRUE]
    ELSE [excs |-> {}, val |-> PNone, dict |-> store, built |-> FALSE]

fset(mutable, name, store, value) ==
    IF assert_mutable(mutable) # {} THEN Effect(assert_mutable(mutable), PNone, store)
    ELSE Effect({}, PNone, DictPut(store, name, value))

fdel(mutable, name, store) ==
    IF assert_mutable(mutable) # {} THEN Effect(assert_mutable(mutable), PNone, store)
    ELSE IF name \notin DOMAIN store THEN Effect({"KeyError"}, PNone, store)
    ELSE Effect({}, PNone, DictDel(store, name))

\* kwargs[args[i]] = args[i+1] for the positional pairs, in order
RECURSIVE positional(_, _)
positional(kwargs, args) ==
    IF args = <<>> THEN kwargs
    ELSE positional(DictPut(kwargs, args[1][1], args[1][2]), Tail(args))

set(cls, mutable, store, args, kwargs) ==
    IF assert_mutable(mutable) # {} THEN Effect(assert_mutable(mutable), PNone, store)
    ELSE LET out == validate_update(cls, positional(kwargs, args), PNone)
         IN  IF Raised(out) THEN Effect(out.excs, PNone, store)
             ELSE Effect({}, PNone, DictUpdate(store, out.val.v))

setdefault(cls, mutable, store, key, value) ==
    IF assert_mutable(mutable) # {} THEN Effect(assert_mutable(mutable), PNone, store)
    ELSE LET out == IF key \notin DOMAIN store
                      THEN set(cls, mutable, store, <<<<key, value>>>>, EmptyDict)
                      ELSE Effect({}, PNone, store)
         IN  IF Raised(out) THEN out
             ELSE IF key \notin DOMAIN out.dict THEN Effect({"KeyError"}, PNone, out.dict)
             ELSE Effect({}, out.dict[key], out.dict)

pop(mutable, store, key, dflt) ==
    IF assert_mutable(mutable) # {} THEN Effect(assert_mutable(mutable), PNone, store)
    ELSE Effect({}, DictGet(store, key, dflt), DictDel(store, key))

update(mutable, store, d) ==
    IF assert_mutable(mutable) # {} THEN Effect(assert_mutable(mutable), PNone, store)
    ELSE Effect({}, PStr("self"), DictUpdate(store, d))

\* Object.attr_value_ok: only ValueError is caught
attr_value_ok(cls, name, value) ==
    IF name \in DOMAIN attrs_(cls)
      THEN LET r == Attr_call(attrs_(cls)[name], value)
           IN  IF r.excs = {} THEN Return(PBool(TRUE))
               ELSE IF r.excs = {"ValueError"} THEN Return(PBool(FALSE))
               ELSE r
      ELSE Return(PBool(FALSE))

\* validate_data / validate_update as methods.  own: the d passed is self.dict
\* itself; alias: the dict returned is self.dict itself, which it is when the
\* result was built in d (not in a new dict) and d is self.dict.
Object_validate_data(cls, store, d, own, import_strategy) ==
    LET alias == own /\ ~new_data(d, coalesce(import_strategy, amethyst_import_strategy)).fresh
        result(out) ==
            [excs |-> out.excs, val |-> out.val, alias |-> alias,
             dict |-> IF alias /\ ~Raised(out) THEN out.val.v ELSE store]
    IN  result(validate_data(cls, d, import_strategy))

Object_validate_update(cls, store, d, own, import_strategy) ==
    LET alias == own /\ ~new_data(d, coalesce(import_strategy, amethyst_import_strategy)).fresh
        result(out) ==
            [excs |-> out.excs, val |-> out.val, alias |-> alias,
             dict |-> IF alias /\ ~Raised(out) THEN out.val.v ELSE store]
    IN  result(validate_update(cls, d, import_strategy))

\* load_data that merges the validated data into the store
Object_load_data_merge(cls, mutable, store, data, import_strategy, verifyclass) ==
    IF assert_mutable(mutable) # {}
    THEN [excs |-> assert_mutable(mutable), val |-> PNone, dict |-> store, popped |-> FALSE]
    ELSE LET result(out) ==
                IF Raised(out)
                THEN [excs |-> out.excs, val |-> PNone, dict |-> store, popped |-> out.popped]
                ELSE [excs |-> {}, val |-> PStr("self"), dict |-> DictUpdate(store, out.val.v),
                      popped |-> out.popped]
         IN  result(load_data(cls, data, import_strategy, verifyclass))

\* Object.load_data: dict is the dict self.dict is bound to afterwards,
\* popped as in load_data
Object_load_data(cls, mutable, store, data, import_strategy, verifyclass) ==
    IF assert_mutable(mutable) # {}
    THEN [excs |-> assert_mutable(mutable), val |-> PNone, dict |-> store, popped |-> FALSE]
    ELSE LET result(out) ==
                IF Raised(out)
                THEN [excs |-> out.excs, val |-> PNone, dict |-> store, popped |-> out.popped]
                ELSE [excs |-> {}, val |-> PStr("self"), dict |-> out.val.v,
                      popped |-> out.popped]
         IN  result(load_data(cls, data, import_strategy, verifyclass))

\* Object.toJSON.  during: self.dict while json.dumps runs
toJSON(cls, store, includeclass, style) ==
    LET inc    == coalesce(includeclass, amethyst_includeclass)
        sty    == coalesce(style, amethyst_classhint_style)
        flat   == inc.v /\ sty = PStr("flat")
        single == inc.v /\ sty = PStr("single-key")
        during == IF flat THEN DictPut(store, "__class__", PStr(dundername(cls))) ELSE store
        dump   == IF single THEN PDict([q \in {dundername(cls)} |-> PDict(store)])
                  ELSE PDict(during)
        rv     == json_dumps(cls, dump)
        after  == IF flat THEN DictDel(during, "__class__") ELSE store
    IN  IF inc.v /\ ~flat /\ ~single
        THEN [excs |-> {"AmethystException"}, val |-> PNone, dict |-> store, during |-> store]
        ELSE IF Raised(rv)
        THEN [excs |-> rv.excs, val |-> PNone, dict |-> after, during |-> during]
        ELSE [excs |-> {}, val |-> JText(rv.val), dict |-> after, during |-> during]

\* Object.fromJSON: json.loads, then load_data
fromJSON(cls, mutable, store, data, import_strategy, verifyclass) ==
    LET result(parsed) ==
            IF Raised(parsed)
            THEN [excs |-> parsed.excs, val |-> PNone, dict |-> store, popped |-> FALSE]
            ELSE Object_load_data(cls, mutable, store, parsed.val, import_strategy, verifyclass)
    IN  result(json_loads(cls, data))

\* Object.newFromJSON: cls() and fromJSON on it
newFromJSON(cls, data, import_strategy, verifyclass) ==
    fromJSON(cls, TRUE, new_dict(cls, EmptyDict), data, import_strategy, verifyclass)


-----------------------------------------------------------------------------
(* The state machine: instances of Obj and the calls made on them          *)

InstanceClass == "Obj"
MaxBuilds == 2
MaxProduced == 3
Objs    == {1, 2}
DictIds == {1, 2}

Alive(o) == self_dict[o] # 0
Store(o) == heap[self_dict[o]]

NoArgs == [none |-> 0]
NoCall == [op |-> "none", obj |-> 0, args |-> NoArgs, exc |-> "none", ret |-> PNone,
           alias |-> FALSE]

\* the call op(args) on instance o ended as out says; alias: the value it
\* returned is the dict object self.dict
Returned(op, o, args, out, alias) ==
    \E e \in (IF out.excs = {} THEN {"none"} ELSE out.excs) :
        /\ last' = [op |-> op, obj |-> o, args |-> args, exc |-> e, ret |-> out.val,
                    alias |-> alias]
        /\ UNCHANGED <<classes, registered_encoders, registered_hooks, produced>>
Called(op, o, args, out) == Returned(op, o, args, out, FALSE)

\* a dict no instance refers to any more is garbage: its id is free again
Collect(h, sd) ==
    [d \in DictIds |-> IF d \in {sd[p] : p \in Objs} THEN h[d] ELSE EmptyDict]

\* self.dict = <a new dict holding contents>
FreshDict(o) ==
    CHOOSE d \in DictIds :
        /\ d \notin {self_dict[p] : p \in Objs \ {o}}
        /\ \A e \in DictIds : e \notin {self_dict[p] : p \in Objs \ {o}} => d <= e
Bind(h, o, contents) ==
    /\ self_dict' = [self_dict EXCEPT ![o] = FreshDict(o)]
    /\ heap' = Collect([h EXCEPT ![FreshDict(o)] = contents], self_dict')

\* self.dict is changed in place (every instance sharing it sees the change)
Mutate(o, contents) ==
    /\ heap' = [heap EXCEPT ![self_dict[o]] = contents]
    /\ UNCHANGED self_dict

Init ==
    /\ heap = [d \in DictIds |-> EmptyDict]
    /\ self_dict = [o \in Objs |-> 0]
    /\ self_mutable = [o \in Objs |-> TRUE]
    /\ builds = [o \in Objs |-> 0]
    /\ last = NoCall
    /\ classes = InitialClasses
    /\ registered_encoders = InitialEncoders
    /\ registered_hooks = InitialHooks
    /\ produced = 0

\* o = Obj(**kwargs)
Object_init(o, kwargs) ==
    /\ Bind(heap, o, new_dict(InstanceClass, kwargs))
    /\ self_mutable' = [self_mutable EXCEPT ![o] = TRUE]
    /\ builds' = [builds EXCEPT ![o] = 0]
    /\ Called("__init__", o, [kwargs |-> PDict(kwargs)], Return(PNone))

\* o = Obj(data) for a dict data: load_data(data, verifyclass=False), then defaults
Object_init_dict(o, data) ==
    LET out == load_data(InstanceClass, data, PNone, PBool(FALSE))
    IN  /\ IF Raised(out)
           THEN UNCHANGED <<heap, self_dict, self_mutable, builds>>
           ELSE /\ Bind(heap, o, new_dict(InstanceClass, out.val.v))
                /\ self_mutable' = [self_mutable EXCEPT ![o] = TRUE]
                /\ builds' = [builds EXCEPT ![o] = 0]
        /\ Called("__init__", o, [data |-> data], [excs |-> out.excs, val |-> PNone])

\* o = Obj(src) for an instance src: another view of the same dict
Object_init_view(o, src) ==
    /\ o # src /\ Alive(src)
    /\ self_dict' = [self_dict EXCEPT ![o] = self_dict[src]]
    /\ heap' = Collect([heap EXCEPT ![self_dict[src]] = new_dict(InstanceClass, @)], self_dict')
    /\ self_mutable' = [self_mutable EXCEPT ![o] = self_mutable[src]]
    /\ builds' = [builds EXCEPT ![o] = 0]
    /\ Called("__init__", o, [src |-> src], Return(PNone))

make_mutable(o) ==
    /\ Alive(o)
    /\ self_mutable' = [self_mutable EXCEPT ![o] = TRUE]
    /\ Called("make_mutable", o, NoArgs, Return(PStr("self")))
    /\ UNCHANGED <<heap, self_dict, builds>>

make_immutable(o) ==
    /\ Alive(o)
    /\ self_mutable' = [self_mutable EXCEPT ![o] = FALSE]
    /\ Called("make_immutable", o, NoArgs, Return(PStr("self")))
    /\ UNCHANGED <<heap, self_dict, builds>>

\* a method that works on self.dict in place
InPlace(op, o, args, out) ==
    /\ Alive(o)
    /\ Mutate(o, out.dict)
    /\ Called(op, o, args, out)
    /\ UNCHANGED <<self_mutable, builds>>

Length(o) == InPlace("__len__", o, NoArgs, __len__(Store(o)))
Contains(o, key) == InPlace("__contains__", o, [key |-> key], __contains__(Store(o), key))
GetItem(o, key) == InPlace("__getitem__", o, [key |-> key], __getitem__(Store(o), key))
SetItem(o, key, value) ==
    InPlace("__setitem__", o, [key |-> key, value |-> value],
            __setitem__(self_mutable[o], Store(o), key, value))
DelItem(o, key) ==
    InPlace("__delitem__", o, [key |-> key], __delitem__(self_mutable[o], Store(o), key))
Get(o, key, dflt) ==
    InPlace("get", o, [key |-> key, dflt |-> dflt], get(Store(o), key, dflt))
SetAttr(o, name, value) ==
    InPlace("fset", o, [name |-> name, value |-> value],
            fset(self_mutable[o], name, Store(o), value))
DelAttr(o, name) ==
    InPlace("fdel", o, [name |-> name], fdel(self_mutable[o], name, Store(o)))
Set(o, args, kwargs) ==
    InPlace("set", o, [args |-> args, kwargs |-> PDict(kwargs)],
            set(InstanceClass, self_mutable[o], Store(o), args, kwargs))
SetDefault(o, key, value) ==
    InPlace("setdefault", o, [key |-> key, value |-> value],
            setdefault(InstanceClass, self_mutable[o], Store(o), key, value))
Pop(o, key, dflt) ==
    InPlace("pop", o, [key |-> key, dflt |-> dflt], pop(self_mutable[o], Store(o), key, dflt))
Update(o, d) ==
    InPlace("update", o, [d |-> PDict(d)], update(self_mutable[o], Store(o), d))
ToJSON(o, includeclass, style) ==
    InPlace("toJSON", o, [includeclass |-> includeclass, style |-> style],
            toJSON(InstanceClass, Store(o), includeclass, style))

\* o.validate_data(d) and o.validate_update(d); own: called as o.validate_data(o.dict)
Validated(op, o, d, own, import_strategy, out) ==
    /\ Alive(o)
    /\ Mutate(o, out.dict)
    /\ Returned(op, o, [d |-> PDict(d), own |-> own, import_strategy |-> import_strategy],
                out, out.alias)
    /\ UNCHANGED <<self_mutable, builds>>
ValidateData(o, d, import_strategy) ==
    Validated("validate_data", o, d, FALSE, import_strategy,
              Object_validate_data(InstanceClass, Store(o), d, FALSE, import_strategy))
ValidateUpdate(o, d, import_strategy) ==
    Validated("validate_update", o, d, FALSE, import_strategy,
              Object_validate_update(InstanceClass, Store(o), d, FALSE, import_strategy))
ValidateOwnData(o, import_strategy) ==
    /\ Alive(o)
    /\ Validated("validate_data", o, Store(o), TRUE, import_strategy,
                 Object_validate_data(InstanceClass, Store(o), Store(o), TRUE, import_strategy))
ValidateOwnUpdate(o, import_strategy) ==
    /\ Alive(o)
    /\ Validated("validate_update", o, Store(o), TRUE, import_strategy,
                 Object_validate_update(InstanceClass, Store(o), Store(o), TRUE, import_strategy))

\* o.<name>: the accessor of a declared field, AttributeError for any other name
GetAttr(o, name) ==
    /\ Alive(o)
    /\ IF name \in DOMAIN attrs_(InstanceClass)
       THEN LET out == fget(attrs_(InstanceClass)[name], name, Store(o))
            IN  /\ out.built => builds[o] < MaxBuilds
                /\ Mutate(o, out.dict)
                /\ builds' = [builds EXCEPT ![o] = IF out.built THEN @ + 1 ELSE @]
                /\ Called("fget", o, [name |-> name], out)
       ELSE /\ Called("fget", o, [name |-> name], Raise("AttributeError"))
            /\ UNCHANGED <<heap, self_dict, builds>>
    /\ UNCHANGED self_mutable

\* a method that may bind self.dict to a new dict: load_data, fromJSON
Loaded(op, o, args, out) ==
    /\ Alive(o)
    /\ IF Raised(out) THEN Mutate(o, out.dict) ELSE Bind(heap, o, out.dict)
    /\ Called(op, o, args, out)
    /\ UNCHANGED <<self_mutable, builds>>

LoadData(o, data, import_strategy, verifyclass) ==
    Loaded("load_data", o,
           [data |-> data, import_strategy |-> import_strategy, verifyclass |-> verifyclass],
           Object_load_data(InstanceClass, self_mutable[o], Store(o), data,
                            import_strategy, verifyclass))

FromJSON(o, data, import_strategy, verifyclass) ==
    Loaded("fromJSON", o,
           [data |-> data, import_strategy |-> import_strategy, verifyclass |-> verifyclass],
           fromJSON(InstanceClass, self_mutable[o], Store(o), data,
                    import_strategy, verifyclass))

\* o.load_data(src) for an instance src: the dict passed is src.dict itself
LoadDataObject(o, src, import_strategy, verifyclass) ==
    /\ Alive(o) /\ Alive(src)
    /\ LET out == Object_load_data(InstanceClass, self_mutable[o], Store(o),
                                   PObject(InstanceClass, Store(src)),
                                   import_strategy, verifyclass)
           passed == IF out.popped
                     THEN [heap EXCEPT ![self_dict[src]] = DictDel(@, "__class__")]
                     ELSE heap
       IN  /\ IF Raised(out)
              THEN heap' = passed /\ UNCHANGED self_dict
              ELSE Bind(passed, o, out.dict)
           /\ Called("load_data", o,
                     [data |-> [k |-> "self", v |-> src], import_strategy |-> import_strategy,
                      verifyclass |-> verifyclass], out)
    /\ UNCHANGED <<self_mutable, builds>>

\* o = Obj.newFromJSON(data)
NewFromJSON(o, data, import_strategy, verifyclass) ==
    LET out == newFromJSON(InstanceClass, data, import_strategy, verifyclass)
    IN  /\ IF Raised(out)
           THEN UNCHANGED <<heap, self_dict, self_mutable, builds>>
           ELSE /\ Bind(heap, o, out.dict)
                /\ self_mutable' = [self_mutable EXCEPT ![o] = TRUE]
                /\ builds' = [builds EXCEPT ![o] = 0]
        /\ Called("newFromJSON", o,
                  [data |-> data, import_strategy |-> import_strategy,
                   verifyclass |-> verifyclass], out)


-----------------------------------------------------------------------------
(* Class statements and registrations                                      *)

\* the ids of the class objects the class statements create, in order
ClassIds == <<"c1", "c2">>
\* the class objects something still refers to: a defined class, or the key
\* of an encoder
ClassObjects == DOMAIN classes \cup DOMAIN registered_encoders
FreeIds == {n \in DOMAIN ClassIds : ClassIds[n] \notin ClassObjects}
NewClassId == ClassIds[CHOOSE n \in FreeIds : \A m \in FreeIds : n <= m]

\* o = Obj4(**kwargs)
Obj4_init(o, kwargs) ==
    LET out == init_defaults(Obj4Attrs, kwargs, produced)
    IN  /\ out.produced <= MaxProduced
        /\ Bind(heap, o, out.dict)
        /\ produced' = out.produced
        /\ self_mutable' = [self_mutable EXCEPT ![o] = TRUE]
        /\ last' = [op |-> "__init__", obj |-> o, args |-> [kwargs |-> PDict(kwargs)],
                    exc |-> "none", ret |-> PNone, alias |-> FALSE]
        /\ UNCHANGED <<builds, classes, registered_encoders, registered_hooks>>

\* o = Obj4(src) for an instance src: a view of src's dict, on which the
\* loop of defaults runs as well
Obj4_init_view(o, src) ==
    LET out == init_defaults(Obj4Attrs, Store(src), produced)
    IN  /\ o # src /\ Alive(src)
        /\ out.produced <= MaxProduced
        /\ self_dict' = [self_dict EXCEPT ![o] = self_dict[src]]
        /\ heap' = Collect([heap EXCEPT ![self_dict[src]] = out.dict], self_dict')
        /\ produced' = out.produced
        /\ self_mutable' = [self_mutable EXCEPT ![o] = self_mutable[src]]
        /\ last' = [op |-> "__init__", obj |-> o, args |-> [src |-> src],
                    exc |-> "none", ret |-> PNone, alias |-> FALSE]
        /\ UNCHANGED <<builds, classes, registered_encoders, registered_hooks>>

\* attr(value) for a validator attr
CallAttr(attr, value) ==
    /\ Called("Attr.__call__", 0, [attr |-> AttrValue(attr), value |-> value],
              Attr_call(attr, value))
    /\ UNCHANGED <<heap, self_dict, self_mutable, builds>>

\* o.attr_value_ok(name, value)
AttrValueOk(o, name, value) ==
    /\ Alive(o)
    /\ Called("attr_value_ok", o, [name |-> name, value |-> value],
              attr_value_ok(InstanceClass, name, value))
    /\ UNCHANGED <<heap, self_dict, self_mutable, builds>>

\* class clsname(base): <new_attrs>   [amethyst_register_type = register]
DefineClass(clsname, base, new_attrs, register) ==
    /\ FreeIds # {}
    /\ base \in DOMAIN classes
    /\ LET out == AttrsMetaclass_new(classes, registered_encoders, registered_hooks,
                                     NewClassId, clsname, base, new_attrs, register)
       IN  /\ classes' = out.classes
           /\ registered_encoders' = out.encoders
           /\ registered_hooks' = out.hooks
           /\ \E e \in (IF out.excs = {} THEN {"none"} ELSE out.excs) :
                last' = [op |-> "class", obj |-> 0,
                         args |-> [cls |-> NewClassId, name |-> clsname, base |-> base,
                                   new_attrs |-> new_attrs, register |-> register],
                         exc |-> e, ret |-> PNone, alias |-> FALSE]
    /\ UNCHANGED <<heap, self_dict, self_mutable, builds, produced>>

\* register_amethyst_type(cls, list, decode, name=name, overwrite=overwrite)
RegisterType(cls, decode, name, overwrite) ==
    /\ cls \in DOMAIN classes \cup BuiltinTypes
    /\ LET module  == IF cls \in BuiltinTypes THEN "builtins" ELSE classes[cls].module
           clsname == IF cls \in BuiltinTypes THEN cls ELSE classes[cls].name
           out == register_amethyst_type(registered_encoders, registered_hooks, cls,
                                         module, clsname, Fn("list", ""), decode, name,
                                         overwrite, TRUE)
       IN  /\ registered_encoders' = out.encoders
           /\ registered_hooks' = out.hooks
           /\ \E e \in (IF out.excs = {} THEN {"none"} ELSE out.excs) :
                last' = [op |-> "register_amethyst_type", obj |-> 0,
                         args |-> [cls |-> cls, module |-> module, clsname |-> clsname,
                                   decode |-> decode, name |-> name,
                                   overwrite |-> overwrite],
                         exc |-> e, ret |-> PNone, alias |-> FALSE]
    /\ UNCHANGED <<heap, self_dict, self_mutable, builds, produced, classes>>

-----------------------------------------------------------------------------
(* The calls of the specifications                                         *)

Tag      == PStr(dundername(InstanceClass))
SubTag   == PStr(dundername("Sub"))       \* a registered subclass of Obj
OtherTag == PStr("__test.Other__")        \* the tag of no registered class
Numbers  == PSet({PInt(1), PInt(2)})

Strategies == {PNone, PStr("loose"), PStr("sloppy")}
Verifies   == {PNone, PBool(FALSE)}
Includes   == {PNone, PBool(FALSE)}
Styles     == {PNone, PStr("single-key"), PStr("nested")}

\* the text the last call returned, when it was toJSON
Encoded == IF last.op = "toJSON" /\ last.exc = "none" THEN {last.ret} ELSE {}

\* Spec: one instance and every method of the mapping interface
Kwargs      == {EmptyDict, [foo |-> PStr("1")], [zzz |-> PInt(1)]}
Items       == {<<"foo", PInt(1)>>, <<"zzz", POpaque>>, <<"__class__", PInt(5)>>,
                <<"baz", Numbers>>}
ReadKeys    == {"foo", "bar", "zzz"}
DelKeys     == {"foo", "bar"}
AttrNames   == {"foo", "bar", "undeclared"}
AttrItems   == {<<"foo", PStr("1")>>}
SetCalls    == {<< <<>>, [foo |-> PStr("1")] >>,
                << << <<"foo", PStr("1")>> >>, [foo |-> PStr("x")] >>,
                << <<>>, [foo |-> PStr("1"), bar |-> PStr("x")] >>,
                << <<>>, [bar |-> PStr("3"), zzz |-> PInt(1)] >>,
                << <<>>, [foo |-> PNone] >>}
Defaults    == {<<"foo", PStr("1")>>, <<"foo", PStr("x")>>, <<"foo", PNone>>}
Updates     == {[zzz |-> PInt(1)]}
Mappings    == {[foo |-> PStr("1"), zzz |-> PInt(1)], [foo |-> PStr("x")],
                [foo |-> PStr("1")]}
Payloads    == {PDict([__class__ |-> Tag, foo |-> PStr("1")]),
                PDict([__class__ |-> Tag, foo |-> PStr("x")]),
                PDict([__class__ |-> Tag, foo |-> PStr("1"), zzz |-> PInt(1)])}
Texts       == {NotJSON,
                JText(JObj([__class__ |-> JStr(Tag.v), foo |-> JNum(1)])),
                JText(JObj([__class__ |-> JStr(Tag.v), foo |-> JStr("x")]))}

Next ==
    \E o \in {1} :
        \/ \E kwargs \in Kwargs : Object_init(o, kwargs)
        \/ \E data \in Payloads : Object_init_dict(o, data)
        \/ make_mutable(o)
        \/ make_immutable(o)
        \/ Length(o)
        \/ \E key \in ReadKeys : Contains(o, key)
        \/ \E key \in ReadKeys : GetItem(o, key)
        \/ \E key \in ReadKeys : Get(o, key, PNone)
        \/ \E name \in AttrNames : GetAttr(o, name)
        \/ \E item \in Items : SetItem(o, item[1], item[2])
        \/ \E key \in DelKeys : DelItem(o, key)
        \/ \E item \in AttrItems : SetAttr(o, item[1], item[2])
        \/ \E name \in DelKeys : DelAttr(o, name)
        \/ \E call \in SetCalls : Set(o, call[1], call[2])
        \/ \E item \in Defaults : SetDefault(o, item[1], item[2])
        \/ \E key \in ReadKeys : Pop(o, key, PNone)
        \/ \E d \in Updates : Update(o, d)
        \/ \E d \in Mappings, s \in Strategies : ValidateData(o, d, s)
        \/ \E d \in Mappings, s \in Strategies : ValidateUpdate(o, d, s)
        \/ \E s \in Strategies : ValidateOwnData(o, s)
        \/ \E s \in Strategies : ValidateOwnUpdate(o, s)
        \/ \E data \in Payloads, s \in {PNone, PStr("sloppy")} : LoadData(o, data, s, PNone)
        \/ \E s \in {PNone, PStr("sloppy")} : LoadDataObject(o, o, s, PNone)
        \/ \E i \in Includes, st \in Styles : ToJSON(o, i, st)
        \/ \E data \in Texts : FromJSON(o, data, PNone, PNone)
        \/ \E data \in Texts : NewFromJSON(o, data, PNone, PNone)

Spec == Init /\ [][Next]_vars

\* SpecCodec: one instance, the loading and encoding calls on payloads with
\* every kind of class tag, under every import policy
CodecKwargs   == {EmptyDict, [foo |-> PInt(1)]}
CodecItems    == {<<"foo", PStr("1")>>, <<"baz", Numbers>>}
CodecMappings == {[foo |-> PStr("1"), zzz |-> PInt(1)], [foo |-> PStr("x"), zzz |-> PInt(1)],
                  [foo |-> PStr("1")]}
CodecPayloads == {PDict([__class__ |-> Tag, foo |-> PStr("1")]),
                  PDict([__class__ |-> Tag, foo |-> PStr("x")]),
                  PDict([__class__ |-> Tag, foo |-> PStr("1"), zzz |-> PInt(1)]),
                  PDict([__class__ |-> OtherTag, foo |-> PStr("1")]),
                  PDict([foo |-> PStr("1")]),
                  PDict([q \in {Tag.v} |-> PDict([foo |-> PStr("1")])]),
                  PDict([q \in {OtherTag.v} |-> PDict([foo |-> PStr("1")])]),
                  PList(<<>>)}
CodecTexts    == {NotJSON,
                  JText(JObj([__class__ |-> JStr(Tag.v), foo |-> JNum(1)])),
                  JText(JObj([__class__ |-> JStr(OtherTag.v), foo |-> JNum(1)])),
                  JText(JObj([foo |-> JNum(1)])),
                  JText(JObj([q \in {Tag.v} |-> JObj([foo |-> JNum(1)])])),
                  JText(JObj([q \in {OtherTag.v} |-> JObj([foo |-> JNum(1)])])),
                  JText(JObj([q \in {SubTag.v} |-> JObj([foo |-> JNum(1)])]))}

NextCodec ==
    \E o \in {1} :
        \/ \E kwargs \in CodecKwargs : Object_init(o, kwargs)
        \/ make_mutable(o)
        \/ make_immutable(o)
        \/ \E item \in CodecItems : SetItem(o, item[1], item[2])
        \/ DelItem(o, "bar")
        \/ \E d \in CodecMappings, s \in Strategies : ValidateData(o, d, s)
        \/ \E d \in CodecMappings, s \in Strategies : ValidateUpdate(o, d, s)
        \/ \E data \in CodecPayloads, s \in Strategies, v \in Verifies : LoadData(o, data, s, v)
        \/ \E s \in Strategies : LoadDataObject(o, o, s, PNone)
        \/ \E i \in Includes, st \in Styles : ToJSON(o, i, st)
        \/ \E data \in CodecTexts \cup Encoded, v \in Verifies : FromJSON(o, data, PNone, v)
        \/ \E data \in CodecTexts \cup Encoded : NewFromJSON(o, data, PNone, PNone)

SpecCodec == Init /\ [][NextCodec]_vars

\* SpecLazy: two instances, which may be views of one dict, and the reads
\* that call the lazy builder
LazyKwargs == {EmptyDict, [bar |-> PInt(1)]}
LazyNames  == {"bar", "baz"}
LazyReads  == {"foo", "bar", "baz"}

NextLazy ==
    \E o \in Objs :
        \/ \E kwargs \in LazyKwargs : Object_init(o, kwargs)
        \/ \E src \in Objs : Object_init_view(o, src)
        \/ make_mutable(o)
        \/ make_immutable(o)
        \/ \E name \in LazyReads : GetAttr(o, name)
        \/ SetItem(o, "baz", PInt(1))
        \/ \E key \in LazyNames : DelItem(o, key)
        \/ \E src \in Objs : LoadDataObject(o, src, PNone, PNone)

SpecLazy == Init /\ [][NextLazy]_vars

\* the class statements and registrations of the type specification
TypeNames  == {"Obj2", "Obj3"}
IntField   == Attr(Producer("int"), PNone, PNone)
StrField   == Attr(Producer("str"), PNone, PNone)
NewFields  == {[foo |-> IntField], [foo |-> Override(StrField)], [get |-> IntField],
               [foo |-> Override(StrField), new |-> IntField]}
DecodeFns  == {Fn("d1", "")}
TagNames   == {PNone, PStr(TagOf("test", "Obj2"))}
RegisteredTypes == DOMAIN classes \cup {"set"}

NextTypes ==
    \/ \E clsname \in TypeNames, base \in DOMAIN classes, new_attrs \in NewFields,
          register \in BOOLEAN : DefineClass(clsname, base, new_attrs, register)
    \/ \E cls \in RegisteredTypes, decode \in DecodeFns,
          name \in TagNames, overwrite \in BOOLEAN :
            (overwrite => cls = "set") /\ RegisterType(cls, decode, name, overwrite)

SpecTypes == Init /\ [][NextTypes]_vars

\* the validators of the validator specification and the values they are
\* called on:  (lo <= Attr(int)) <= hi,  lo < Attr(int),  A | r,  r | A
RangeBounds == {-5, 0, 200}
Ranged(lo, hi) == __le__(__ge__(IntField, PInt(lo)), PInt(hi))
Above(lo) == __gt__(IntField, PInt(lo))
Below(hi) == __lt__(IntField, PInt(hi))
RightOperands == {Producer("str"), AttrValue(IntField), AttrValue(Above(0)),
                  PNone, PStr("x"), PInt(0)}
Validators ==
    {IntField, StrField}
    \cup {Ranged(lo, hi) : lo \in RangeBounds, hi \in RangeBounds}
    \cup {Above(lo) : lo \in RangeBounds} \cup {Below(hi) : hi \in RangeBounds}
    \cup {__or__(A, r) : A \in {IntField, Above(0), Ranged(0, 200)}, r \in RightOperands}
    \cup {__ror__(A, r) : A \in {IntField}, r \in RightOperands}
    \cup {__and__(IntField, r) : r \in {AttrValue(Above(0)), Producer("str"), PInt(0)}}
    \cup {__abs__(IntField), Attr_int(IntField), __abs__(StrField)}
AttrInputs ==
    {PInt(n) : n \in {-6, -5, -4, -1, 0, 1, 150, 199, 200, 201}}
    \cup {PStr("150"), PStr("x"), PNone, PBool(TRUE)}

NextAttr ==
    \/ \E attr \in Validators, value \in AttrInputs : CallAttr(attr, value)
    \/ Object_init(1, EmptyDict)
    \/ \E name \in AttrNames \cup {"baz"}, value \in AttrInputs : AttrValueOk(1, name, value)

SpecAttr == Init /\ [][NextAttr]_vars

\* the constructions of the defaults specification
DefaultKwargs == {EmptyDict, [foo |-> PInt(5)], [bar |-> PInt(1), baz |-> PInt(2)]}
DefaultNames  == {"foo", "bar", "baz"}

NextDefault ==
    \E o \in Objs :
        \/ \E kwargs \in DefaultKwargs : Obj4_init(o, kwargs)
        \/ \E src \in Objs : Obj4_init_view(o, src)
        \/ \E key \in DefaultNames : DelItem(o, key)

SpecDefault == Init /\ [][NextDefault]_vars

\* self.JSONEncoder(obj) on an instance of cls, as json.dumps calls it for a
\* value it cannot encode
CallJSONEncoder(cls, obj) ==
    /\ Called("JSONEncoder", 0, [cls |-> cls, obj |-> obj], JSONEncoder(cls, obj))
    /\ UNCHANGED <<heap, self_dict, self_mutable, builds>>

\* self.JSONObjectHook(obj) on an instance of cls, as json.loads calls it for
\* every decoded object
CallJSONObjectHook(cls, obj) ==
    /\ Called("JSONObjectHook", 0, [cls |-> cls, obj |-> obj], JSONObjectHook(cls, obj))
    /\ UNCHANGED <<heap, self_dict, self_mutable, builds>>

\* the encodings and decodings of the codec-tables specification: instances
\* of Obj (no local table) and of Hooked (local entries for set and "__set__")
HookClasses  == {"Obj", "Hooked"}
HookMembers  == SUBSET {PInt(1), PInt(2), PStr("a")}
HookValues   == {PSet(S) : S \in HookMembers}
                  \cup {[k |-> "frozenset", v |-> S] : S \in HookMembers}
                  \cup {PObject("Obj", EmptyDict), PObject("Unrel", [foo |-> PInt(1)]),
                        POpaque, PInt(1)}
HookKeys     == {"__set__", "__frozenset__", "__bob__", "zzz", Tag.v}
HookBodies   == {PList(<<>>), PList(<<PInt(1)>>), PList(<<PInt(1), PInt(2)>>),
                 PDict([foo |-> PStr("1")]), PDict([foo |-> PStr("x")]), PInt(1), PStr("a")}
HookObjects  == {PDict([q \in {key} |-> body]) : key \in HookKeys, body \in HookBodies}
                  \cup {PDict([q \in {key, "zzz"} |-> body]) : key \in HookKeys, body \in HookBodies}
                  \cup {PDict(EmptyDict)}

NextHooks ==
    \/ \E cls \in HookClasses, obj \in HookValues : CallJSONEncoder(cls, obj)
    \/ \E cls \in HookClasses, obj \in HookObjects : CallJSONObjectHook(cls, obj)

SpecHooks == Init /\ [][NextHooks]_vars

\* the class of instance o in the composition specification: o is always an
\* instance of the o-th class object
ClassOf(o) == ClassIds[o]

\* o = cls(**kwargs) for the class cls = ClassOf(o) a class statement defined
Instance_init(o, kwargs) ==
    /\ ClassOf(o) \in DOMAIN classes
    /\ LET out == init_defaults(classes[ClassOf(o)].attrs, kwargs, produced)
       IN  /\ out.produced <= MaxProduced
           /\ Bind(heap, o, out.dict)
           /\ produced' = out.produced
    /\ self_mutable' = [self_mutable EXCEPT ![o] = TRUE]
    /\ builds' = [builds EXCEPT ![o] = 0]
    /\ last' = [op |-> "__init__", obj |-> o,
                args |-> [cls |-> ClassOf(o), kwargs |-> PDict(kwargs)],
                exc |-> "none", ret |-> PNone, alias |-> FALSE]
    /\ UNCHANGED <<classes, registered_encoders, registered_hooks>>

\* o.name for a field name of the class of o
Instance_fget(o, name) ==
    /\ Alive(o)
    /\ name \in DOMAIN classes[ClassOf(o)].attrs
    /\ LET out == fget(classes[ClassOf(o)].attrs[name], name, Store(o))
       IN  /\ out.built => builds[o] < MaxBuilds
           /\ Mutate(o, out.dict)
           /\ builds' = [builds EXCEPT ![o] = IF out.built THEN @ + 1 ELSE @]
           /\ Called("fget", o, [cls |-> ClassOf(o), name |-> name], out)
    /\ UNCHANGED self_mutable

\* the class statements of the composition specification: one field foo,
\* declared with a validator that has a default, a builder or both, as it is
\* or inside  A <= 200,  A | None,  A & str,  A.int()
SeededFields == {Attr(Producer("int"), PInt(3), PNone),
                 Attr(Producer("int"), PNone, Producer("build")),
                 Attr(Producer("int"), PInt(3), Producer("build"))}
ComposedOf(A) == {__le__(A, PInt(200)), __or__(A, PNone), __and__(A, Producer("str")),
                  Attr_int(A)}
ComposeFields == {[foo |-> A] : A \in SeededFields \cup UNION {ComposedOf(A) : A \in SeededFields}}
ComposeKwargs == {EmptyDict, [foo |-> PInt(5)]}

NextCompose ==
    \/ \E clsname \in TypeNames, new_attrs \in ComposeFields :
          DefineClass(clsname, "Object", new_attrs, TRUE)
    \/ \E o \in Objs, kwargs \in ComposeKwargs : Instance_init(o, kwargs)
    \/ \E o \in Objs : Instance_fget(o, "foo")
    \/ \E o \in Objs : DelItem(o, "foo")

SpecCompose == Init /\ [][NextCompose]_vars

-----------------------------------------------------------------------------
(* Properties                                                              *)

WriteOps == {"__setitem__", "__delitem__", "fset", "fdel", "set", "setdefault", "pop",
             "update", "load_data", "fromJSON"}
ReadOps  == {"__getitem__", "get", "fget", "__len__", "__contains__"}

\* the key a read names, for the reads that name one
ReadKey(call) ==
    IF call.op \in {"__getitem__", "get"} THEN call.args.key ELSE call.args.name

\* a read of frozen instance o returns what its store holds
C1_Reads(o) ==
    /\ last'.op \in {"__getitem__", "get", "fget"} /\ ReadKey(last') \in DOMAIN Store(o)
         => last'.exc = "none" /\ last'.ret = Store(o)[ReadKey(last')]
    /\ last'.op = "__len__"
         => last'.exc = "none" /\ last'.ret = PInt(Cardinality(DOMAIN Store(o)))
    /\ last'.op = "__contains__"
         => last'.exc = "none" /\ last'.ret = PBool(last'.args.key \in DOMAIN Store(o))
    /\ last'.op \in ReadOps
         => \A key \in DOMAIN Store(o) :
                key \in DOMAIN heap'[self_dict'[o]] /\ heap'[self_dict'[o]][key] = Store(o)[key]

\* fromJSON was given text that json.loads cannot decode, and failed as
\* json.loads fails
C1_Undecodable ==
    /\ last'.op = "fromJSON"
    /\ Raised(json_loads(InstanceClass, last'.args.data))
    /\ last'.exc \in json_loads(InstanceClass, last'.args.data).excs

C2_RoundTrip(o) ==
    /\ Alive(o) /\ last.obj = o /\ last.op = "toJSON" /\ last.exc = "none"
    /\ last.args.includeclass = PNone
    /\ last.args.style \in {PNone, PStr("single-key")}
    /\ last'.obj = o /\ last'.op \in {"fromJSON", "newFromJSON"}
    /\ last'.args.data = last.ret
    /\ last'.args.import_strategy = PNone /\ last'.args.verifyclass = PNone
    /\ last'.op = "fromJSON" => self_mutable[o]

\* a value JSON represents: an int, str, bool or None, or a set of ints and strs
C2_Plain(v) ==
    \/ v.k \in {"int", "str", "bool", "none"}
    \/ v.k = "set" /\ \A e \in v.v : e.k \in {"int", "str"}

\* a store as validate_data leaves one: declared keys only, every value one
\* its validator returns unchanged, every eager default present
C2_Canonical(store) ==
    LET A == attrs_(InstanceClass)
    IN  /\ DOMAIN store \subseteq DOMAIN A
        /\ \A name \in DOMAIN store :
              C2_Plain(store[name]) /\ Attr_call(A[name], store[name]) = Return(store[name])
        /\ \A name \in DOMAIN A : A[name].default # PNone => name \in DOMAIN store

C3_Wrapped(data) ==
    data.k = "dict" /\ DOMAIN data.v = {Tag.v} /\ data.v[Tag.v].k = "dict"
C3_Body(data) ==
    IF C3_Wrapped(data) THEN data.v[Tag.v].v ELSE DictDel(data.v, "__class__")

\* the payload passes class-tag verification, or verification is disabled
C3_TagAccepted(data, verifyclass) ==
    \/ C3_Wrapped(data)
    \/ DictGet(data.v, "__class__", PNone) = Tag
    \/ verifyclass = PBool(FALSE)

\* the last call was validate_data, validate_update or load_data (on a
\* mutable instance, with an accepted class tag) of a mapping
C3_Call ==
    \/ last.op \in {"validate_data", "validate_update"}
    \/ /\ last.op = "load_data" /\ self_mutable[last.obj]
       /\ last.args.data.k = "dict"
       /\ C3_TagAccepted(last.args.data, last.args.verifyclass)
C3_Input  == IF last.op = "load_data" THEN C3_Body(last.args.data) ELSE last.args.d.v
C3_Result == IF last.op = "load_data" THEN Store(last.obj) ELSE last.ret.v
C3_Unknown == DOMAIN C3_Input \ DOMAIN attrs_(InstanceClass)

\* C3: validate_data, validate_update and load_data, given a mapping with
\* exactly one key that is not a declared field (and whose declared fields
\* are all valid), fail with a validation error (ValueError) under strict,
\* yield a mapping without that key under loose, and yield a mapping that
\* holds that key with its value unmodified under sloppy.
C3_UnknownKeyPolicy ==
    ( /\ C3_Call
      /\ Cardinality(C3_Unknown) = 1
      /\ \A name \in DOMAIN C3_Input \cap DOMAIN attrs_(InstanceClass) :
            ~Raised(Attr_call(attrs_(InstanceClass)[name], C3_Input[name])) )
    => LET strategy == coalesce(last.args.import_strategy, amethyst_import_strategy)
           key == CHOOSE q \in C3_Unknown : TRUE
       IN  /\ strategy = PStr("strict") => last.exc = "ValueError"
           /\ strategy = PStr("loose")
                => last.exc = "none" /\ key \notin DOMAIN C3_Result
           /\ strategy = PStr("sloppy")
                => /\ last.exc = "none"
                   /\ key \in DOMAIN C3_Result /\ C3_Result[key] = C3_Input[key]

\* load_data under sloppy kept the undeclared key zzz of its payload
C3_Witness ==
    /\ last.op = "load_data" /\ last.exc = "none"
    /\ last.args.import_strategy = PStr("sloppy")
    /\ last.args.data.k = "dict" /\ "zzz" \in DOMAIN last.args.data.v
    /\ "zzz" \in DOMAIN Store(1)

\* The payload of a load_data(mapping) or fromJSON(text of a JSON object)
\* call c: its keys, whether its flat "__class__" entry is this type's tag,
\* and the mapping of Python values it denotes when it is flat.
TagKeys == {dundername(c) : c \in Classes} \cup {OtherTag.v}
C4_IsMapping(c) ==
    \/ c.op = "load_data" /\ c.args.data.k = "dict"
    \/ c.op = "fromJSON" /\ c.args.data.v.k = "jobj"
C4_Keys(c) ==
    IF c.op = "load_data" THEN DOMAIN c.args.data.v ELSE DOMAIN c.args.data.v.v
C4_TagMatches(c) ==
    /\ "__class__" \in C4_Keys(c)
    /\ IF c.op = "load_data" THEN c.args.data.v["__class__"] = Tag
       ELSE c.args.data.v.v["__class__"] = JStr(Tag.v)
C4_OwnWrapper(c) == C4_Keys(c) = {Tag.v}
\* a single-key wrapper naming a type
C4_Wrapper(c) == Cardinality(C4_Keys(c)) = 1 /\ C4_Keys(c) \subseteq TagKeys
C4_Named(c) == CHOOSE key \in C4_Keys(c) : TRUE
\* the class tag is missing or is not this type's
C4_Mismatch(c) == C4_IsMapping(c) /\ ~C4_OwnWrapper(c) /\ ~C4_TagMatches(c)
C4_Enabled(c)  == c.args.verifyclass = PNone
C4_Disabled(c) == c.args.verifyclass = PBool(FALSE)
\* the fields of a flat payload
C4_Fields(c) ==
    LET m == IF c.op = "load_data" THEN c.args.data.v
             ELSE json_value(InstanceClass, c.args.data.v).val.v
    IN  DictDel(m, "__class__")
\* the fields of a wrapper's inner mapping
C4_Inner(c) ==
    IF c.op = "load_data" THEN c.args.data.v[C4_Named(c)].v
    ELSE json_value(InstanceClass, c.args.data.v.v[C4_Named(c)]).val.v
\* the mapping is acceptable to validate_data under the call's policy
C4_Valid(c, fields) ==
    ~Raised(validate_data(InstanceClass, fields, c.args.import_strategy))
\* load_data or fromJSON on mutable instance o was the call just made
C4_Load(o) ==
    /\ Alive(o) /\ self_mutable[o] /\ last'.obj = o
    /\ last'.op \in {"load_data", "fromJSON"}
C4_Refused == last'.exc # "none" /\ heap' = heap /\ self_dict' = self_dict

\* C4 as stated: with verification enabled, load_data / fromJSON of a
\* payload whose class tag is missing or differs from the receiving type's
\* tag (flat "__class__" entry, or single-key wrapper naming another type)
\* fails and does not load the data; the same, otherwise valid, payload with
\* verifyclass=False succeeds.
C4_AsStated ==
    [][\A o \in Objs :
          C4_Load(o) /\ C4_Mismatch(last')
          => /\ C4_Enabled(last') => C4_Refused
             /\ ( /\ C4_Disabled(last')
                  /\ C4_Valid(last', IF C4_Wrapper(last') THEN C4_Inner(last')
                                     ELSE C4_Fields(last')) )
                  => last'.exc = "none"]_vars

\* the declared fields that have a lazy builder and no eager default
LazyFields ==
    {name \in DOMAIN attrs_(InstanceClass) :
        /\ attrs_(InstanceClass)[name].builder # PNone
        /\ attrs_(InstanceClass)[name].default = PNone}

\* the call just made is a read of attribute name of o
C5_Read(o, name) == Alive(o) /\ last'.op = "fget" /\ last'.obj = o /\ last'.args.name = name

\* the builder is called (builds[o] counts its calls since o was constructed)
\* only by a read of a lazy field of o whose key is absent from the store
C5_OnlyOnAbsentRead(o) ==
    builds'[o] # builds[o]
    => \/ last'.op \in {"__init__", "newFromJSON"} /\ last'.obj = o /\ builds'[o] = 0
       \/ /\ builds'[o] = builds[o] + 1
          /\ \E name \in LazyFields : C5_Read(o, name) /\ name \notin DOMAIN Store(o)

\* construction calls no builder: a lazy field is in the new instance's
\* store only if the caller, or the instance it is a view of, supplied it
C5_NotAtConstruction(o) ==
    last'.op = "__init__" /\ last'.obj = o /\ last'.exc = "none"
    => /\ builds'[o] = 0
       /\ \A name \in LazyFields :
             name \in DOMAIN heap'[self_dict'[o]]
             => IF "kwargs" \in DOMAIN last'.args THEN name \in DOMAIN last'.args.kwargs.v
                ELSE name \in DOMAIN Store(last'.args.src)

C6_Input(c) ==
    IF c.args.data.k = "self" THEN DictDel(Store(c.args.data.v), "__class__")
    ELSE C3_Body(c.args.data)

\* C6: a successful load_data replaces the whole store with the validated
\* result: afterwards the store holds exactly the validated input fields, the
\* eager defaults of the declared fields absent from the input and (sloppy
\* only) the undeclared input keys with their values; no key stored before
\* survives unless the input or a default supplies it, and "__class__" is not
\* in the store.
C6_LoadReplacesStore ==
    [][\A o \in Objs :
          Alive(o) /\ last'.op = "load_data" /\ last'.obj = o /\ last'.exc = "none"
          => LET A        == attrs_(InstanceClass)
                 input    == C6_Input(last')
                 strategy == coalesce(last'.args.import_strategy, amethyst_import_strategy)
                 given    == DOMAIN input \cap DOMAIN A
                 defaults == {name \in DOMAIN A \ DOMAIN input : A[name].default # PNone}
                 unknown  == IF strategy = PStr("sloppy") THEN DOMAIN input \ DOMAIN A ELSE {}
                 after    == heap'[self_dict'[o]]
             IN  /\ DOMAIN after = given \cup defaults \cup unknown
                 /\ \A name \in given : after[name] = Attr_call(A[name], input[name]).val
                 /\ \A name \in defaults : after[name] = get_default(A[name])
                 /\ \A key \in unknown : after[key] = input[key]
                 /\ \A key \in DOMAIN Store(o) \cap DOMAIN after :
                        key \in DOMAIN input \/ key \in defaults
                 /\ "__class__" \notin DOMAIN after]_vars

\* load_data under sloppy left exactly the payload's fields and the default
C6_Witness ==
    /\ last.op = "load_data" /\ last.exc = "none" /\ last.args.data.k = "dict"
    /\ Store(1) = [foo |-> PInt(1), bar |-> PInt(3), zzz |-> PInt(1)]

\* C7: validate_data and validate_update never mutate the record: for every
\* input mapping (the record's own store included) and every policy, whether
\* they succeed or fail, the store and the mutability flag are afterwards
\* what they were, and the mapping returned is not the store itself.
C7_ValidateIsPure ==
    [][last'.op \in {"validate_data", "validate_update"}
       => /\ heap' = heap /\ self_dict' = self_dict
          /\ self_mutable' = self_mutable
          /\ ~last'.alias]_vars

\* validate_data(o.dict) under sloppy converted a stored value in its result
\* and left the store alone
C7_Witness ==
    /\ last.op = "validate_data" /\ last.exc = "none" /\ last.args.own
    /\ last.args.import_strategy = PStr("sloppy")
    /\ "foo" \in DOMAIN Store(1) /\ Store(1)["foo"] = PStr("1")
    /\ last.ret.v["foo"] = PInt(1)
    /\ ~last.alias

\* C8 as stated: when set (with several key/value pairs) or load_data fails
\* on a field-level or key-policy violation, nothing of the call is applied:
\* the store is exactly what it was before the call.
C8_AsStated ==
    [][\A o \in Objs :
          ( /\ Alive(o) /\ last'.obj = o
            /\ last'.op \in {"set", "load_data"}
            /\ last'.exc \in {"ValueError", "TypeError"} )
          => heap' = heap /\ self_dict' = self_dict]_vars

\* C9 as stated: toJSON leaves the store after the call, whether it returns
\* or raises, equal to the store before the call, in flat style with the
\* class tag (the injected "__class__" entry is removed and nothing else is
\* changed) as in single-key style.
C9_AsStated ==
    [][\A o \in Objs :
          Alive(o) /\ last'.obj = o /\ last'.op = "toJSON"
          => heap' = heap /\ self_dict' = self_dict]_vars

\* C10 as stated: toJSON() with no arguments, on a record of a type that
\* keeps the default serialization settings, emits the single-key form
\* {"<tag>": <store>}.
C10_AsStated ==
    ( /\ last.op = "toJSON" /\ last.exc = "none"
      /\ last.args.includeclass = PNone /\ last.args.style = PNone )
    => /\ last.ret.v.k = "jobj"
       /\ DOMAIN last.ret.v.v = {Tag.v}
       /\ last.ret.v.v[Tag.v] = json_dumps(InstanceClass, PDict(Store(last.obj))).val

\* C11: a class statement that declares a field whose name is already a
\* field in the schema of its base fails with DuplicateAttributeException
\* unless every such field is marked OVERRIDE=True; then the class is defined
\* and its schema holds the new field in place of the inherited one.  In both
\* cases the schemas of the classes defined before are unchanged.  (The
\* statement is one whose registration succeeds, and the success case is one
\* whose fields name no member of Object.)
C11_Args == last'.args
C11_Inherited == DOMAIN classes[C11_Args.base].attrs
C11_Redeclared == DOMAIN C11_Args.new_attrs \cap C11_Inherited
C11_Unmarked == {name \in C11_Redeclared : ~C11_Args.new_attrs[name].OVERRIDE}
C11_Registers ==
    ~C11_Args.register \/ TagOf("test", C11_Args.name) \notin DOMAIN registered_hooks
C11_Defined ==
    /\ last'.exc = "none"
    /\ C11_Args.cls \in DOMAIN classes'
    /\ \A name \in DOMAIN C11_Args.new_attrs :
         classes'[C11_Args.cls].attrs[name] = C11_Args.new_attrs[name]
    /\ \A name \in C11_Inherited \ C11_Redeclared :
         classes'[C11_Args.cls].attrs[name] = classes[C11_Args.base].attrs[name]
C11_DuplicateFieldRule ==
    [][last'.op = "class" /\ C11_Redeclared # {} /\ C11_Registers =>
        /\ \A c \in DOMAIN classes : c \in DOMAIN classes' /\ classes'[c] = classes[c]
        /\ IF C11_Unmarked # {}
             THEN last'.exc = "DuplicateAttributeException" /\ classes' = classes
             ELSE DOMAIN C11_Args.new_attrs \cap ObjectMembers = {} => C11_Defined]_vars
C11_Witness ==
    /\ last.op = "class" /\ last.exc = "none"
    /\ "foo" \in DOMAIN last.args.new_attrs
    /\ last.args.new_attrs.foo.OVERRIDE
    /\ last.args.base # "Object"
    /\ classes[last.args.base].attrs.foo = IntField
    /\ classes[last.args.cls].attrs.foo = Override(StrField)

\* C12: register_amethyst_type called without overwrite, directly or by a
\* class statement, for a class that already has a global encoder or for a tag
\* that already has a global hook raises ValueError and leaves both global
\* tables as they were; and no step without overwrite changes the decode
\* function a tag already maps to, so each tag keeps the one of its first
\* registration.
C12_Registers ==
    \/ last'.op = "register_amethyst_type"
    \/ last'.op = "class" /\ last'.args.register
C12_Overwrite == last'.op = "register_amethyst_type" /\ last'.args.overwrite
C12_Tag ==
    IF last'.op = "class" THEN TagOf("test", last'.args.name)
    ELSE IF last'.args.name = PNone THEN TagOf(last'.args.module, last'.args.clsname)
    ELSE last'.args.name.v
C12_Taken ==
    \/ last'.args.cls \in DOMAIN registered_encoders
    \/ C12_Tag \in DOMAIN registered_hooks
C12_FirstRegistrationWins ==
    [][/\ C12_Registers /\ ~C12_Overwrite /\ C12_Taken =>
            /\ last'.exc = "ValueError"
            /\ registered_encoders' = registered_encoders
            /\ registered_hooks' = registered_hooks
       /\ ~C12_Overwrite =>
            \A tag \in DOMAIN registered_hooks :
                tag \in DOMAIN registered_hooks'
                    /\ registered_hooks'[tag] = registered_hooks[tag]]_vars
C12_Witness ==
    /\ last.op = "register_amethyst_type" /\ ~last.args.overwrite
    /\ last.exc = "ValueError"
    /\ last.args.cls \notin DOMAIN registered_encoders
    /\ last.args.name # PNone
    /\ last.args.name.v \in DOMAIN registered_hooks
    /\ registered_hooks[last.args.name.v] # last.args.decode

\* C13: the validator (lo <= Attr(int)) <= hi, called on an input that int
\* converts to v, returns v when lo <= v <= hi (both bounds included) and
\* raises ValueError otherwise; lo < Attr(int) returns v when lo < v and
\* raises ValueError otherwise, so 0 < Attr(int) refuses 0.  An input int
\* does not convert fails with int's own error.
C13_Converted == int(last.args.value)
C13_Outcome(accepted) ==
    IF Raised(C13_Converted) THEN last.exc \in C13_Converted.excs
    ELSE IF accepted THEN last.exc = "none" /\ last.ret = C13_Converted.val
    ELSE last.exc = "ValueError"
C13_InclusiveRange ==
    last.op = "Attr.__call__" =>
        \A lo \in RangeBounds :
            /\ last.args.attr = AttrValue(Above(lo)) =>
                  C13_Outcome(lo < C13_Converted.val.v)
            /\ \A hi \in RangeBounds :
                  last.args.attr = AttrValue(Ranged(lo, hi)) =>
                      C13_Outcome(lo <= C13_Converted.val.v /\ C13_Converted.val.v <= hi)
C13_Witness ==
    /\ last.op = "Attr.__call__"
    /\ last.args.attr = AttrValue(Ranged(0, 200))
    /\ last.args.value = PInt(200)
    /\ last.exc = "none" /\ last.ret = PInt(200)

\* C14 as stated: set on a mutable record stores, for each key given, the
\* value the field's validator returns for the value given (for a key given
\* both as a positional pair and as a keyword, for the positional value), and
\* a call with a value its validator rejects raises ValueError.
C14_Positional == {last'.args.args[i][1] : i \in DOMAIN last'.args.args}
C14_Given(key) ==
    IF key \in C14_Positional
      THEN LET i == CHOOSE i \in DOMAIN last'.args.args : last'.args.args[i][1] = key
           IN  last'.args.args[i][2]
      ELSE last'.args.kwargs.v[key]
C14_Keys == C14_Positional \cup DOMAIN last'.args.kwargs.v
C14_Validated(key) == Attr_call(attrs_(InstanceClass)[key], C14_Given(key))
C14_Rejected ==
    {key \in C14_Keys \cap DOMAIN attrs_(InstanceClass) : Raised(C14_Validated(key))}
C14_AsStated ==
    [][\A o \in Objs :
          Alive(o) /\ self_mutable[o] /\ last'.obj = o /\ last'.op = "set"
          => /\ C14_Rejected # {} => last'.exc = "ValueError"
             /\ C14_Rejected = {} /\ C14_Keys \subseteq DOMAIN attrs_(InstanceClass)
                  => /\ last'.exc = "none"
                     /\ \A key \in C14_Keys :
                          /\ key \in DOMAIN heap'[self_dict[o]]
                          /\ heap'[self_dict[o]][key] = C14_Validated(key).val]_vars

\* C15 as stated: setdefault(key, value) on a mutable record whose store
\* holds key returns the stored value, changes nothing and raises nothing,
\* whatever the proposed value; on one whose store lacks key it does what
\* set(key, value) does: a valid value is validated, stored and returned, and
\* an invalid one raises ValueError and leaves key absent.
C15_Validated ==
    Attr_call(attrs_(InstanceClass)[last'.args.key], last'.args.value)
C15_AsStated ==
    [][\A o \in Objs :
          ( /\ Alive(o) /\ self_mutable[o] /\ last'.obj = o /\ last'.op = "setdefault"
            /\ last'.args.key \in DOMAIN attrs_(InstanceClass) )
          => IF last'.args.key \in DOMAIN Store(o)
               THEN /\ last'.exc = "none"
                    /\ last'.ret = Store(o)[last'.args.key]
                    /\ heap' = heap /\ self_dict' = self_dict
             ELSE IF Raised(C15_Validated)
               THEN /\ last'.exc = "ValueError"
                    /\ heap' = heap /\ self_dict' = self_dict
             ELSE /\ last'.exc = "none"
                  /\ last'.ret = C15_Validated.val
                  /\ heap'[self_dict[o]] = DictPut(Store(o), last'.args.key, C15_Validated.val)]_vars

\* the call just made is a read of the declared field name of o through its
\* accessor
C16_Read(o, name) ==
    Alive(o) /\ last'.op = "fget" /\ last'.obj = o /\ last'.args.name = name
\* the read returned value; the store is unchanged, or has gained name -> value
C16_Returned(o, name, value, cached) ==
    /\ last'.exc = "none" /\ last'.ret = value
    /\ self_dict' = self_dict
    /\ IF cached THEN heap'[self_dict[o]] = DictPut(Store(o), name, value)
       ELSE heap' = heap
C16_Order(o, name, neither) ==
    LET attr == attrs_(InstanceClass)[name]
    IN  C16_Read(o, name)
        => IF name \in DOMAIN Store(o) THEN C16_Returned(o, name, Store(o)[name], FALSE)
           ELSE IF attr.default # PNone THEN C16_Returned(o, name, get_default(attr), TRUE)
           ELSE IF attr.builder # PNone
             THEN C16_Returned(o, name, CallProducer(attr.builder), TRUE)
           ELSE neither

\* C16 as stated: a read of a declared field through its accessor returns the
\* stored value if the key is present; else the eager default, which it
\* stores; else the result of the lazy builder, which it stores; and with
\* neither default nor builder the read raises AttributeError.
C16_AsStated ==
    [][\A o \in Objs : \A name \in DOMAIN attrs_(InstanceClass) :
          C16_Order(o, name, last'.exc = "AttributeError")]_vars

\* C16, amended: a read of a declared field through its accessor returns the
\* stored value if the key is present; else the eager default, which it
\* stores; else the result of the lazy builder, which it stores; and with
\* neither default nor builder the read returns None, raises nothing and
\* leaves the store as it was.
C16_ReadOrder ==
    [][\A o \in Objs : \A name \in DOMAIN attrs_(InstanceClass) :
          C16_Order(o, name, C16_Returned(o, name, PNone, FALSE))]_vars

\* a field with neither default nor builder has been read while absent
C16_Witness ==
    /\ last.op = "fget" /\ last.args.name = "foo" /\ Alive(last.obj)
    /\ attrs_(InstanceClass)["foo"].default = PNone
    /\ attrs_(InstanceClass)["foo"].builder = PNone
    /\ "foo" \notin DOMAIN Store(last.obj)
    /\ last.exc = "none" /\ last.ret = PNone

\* C17: a read, through its accessor, of a declared field that is absent from
\* the store and has neither default nor builder returns None and leaves the
\* store as it was, on a mutable and on an immutable record alike; a read of
\* an attribute name that is not declared raises AttributeError.
C17_Plain(name) ==
    /\ name \in DOMAIN attrs_(InstanceClass)
    /\ attrs_(InstanceClass)[name].default = PNone
    /\ attrs_(InstanceClass)[name].builder = PNone
C17_NoAutovivification ==
    [][\A o \in Objs :
          Alive(o) /\ last'.op = "fget" /\ last'.obj = o
          => /\ C17_Plain(last'.args.name) /\ last'.args.name \notin DOMAIN Store(o)
                => /\ last'.exc = "none" /\ last'.ret = PNone
                   /\ heap' = heap /\ self_dict' = self_dict
             /\ last'.args.name \notin DOMAIN attrs_(InstanceClass)
                => last'.exc = "AttributeError"]_vars
C17_Witness ==
    /\ last.op = "fget" /\ C17_Plain(last.args.name)
    /\ ~self_mutable[last.obj]
    /\ last.args.name \notin DOMAIN Store(last.obj)
    /\ Store(last.obj) # EmptyDict
    /\ last.exc = "none" /\ last.ret = PNone

\* C18 as stated: a validator that fails, in its convert, isa or verify step,
\* fails with ValueError whatever the input; so attr_value_ok raises nothing
\* and returns False for every input the field's validator does not accept
\* (True for the others), and a call of A | r never ends with an error of A
\* that is not a ValueError.
C18_AsStated ==
    /\ last.op = "Attr.__call__" => last.exc \in {"none", "ValueError"}
    /\ last.op = "attr_value_ok" =>
          /\ last.exc = "none"
          /\ last.args.name \in DOMAIN attrs_(InstanceClass) =>
                last.ret = PBool(~Raised(Attr_call(attrs_(InstanceClass)[last.args.name],
                                                   last.args.value)))

\* C20 as stated: A | r called on x returns A(x) when A accepts x; when A
\* fails on x it returns r(x) if r is callable (r is given x itself), returns
\* r if r is a literal equal to x, and otherwise fails with A's failure.
C20_IsOr ==
    /\ last.op = "Attr.__call__"
    /\ last.args.attr.v.convert.k = "closure"
    /\ last.args.attr.v.convert.v.op = "or"
C20_Left == Attr_call(last.args.attr.v.convert.v.self, last.args.value)
C20_Right == last.args.attr.v.convert.v.other
C20_Is(out) ==
    IF Raised(out) THEN last.exc \in out.excs ELSE last.exc = "none" /\ last.ret = out.val
C20_AsStated ==
    C20_IsOr =>
        IF ~Raised(C20_Left) THEN C20_Is(C20_Left)
        ELSE IF callable(C20_Right) THEN C20_Is(Convert(C20_Right, last.args.value))
        ELSE IF PyEq(last.args.value, C20_Right) THEN C20_Is(Return(C20_Right))
        ELSE C20_Is(C20_Left)

\* C19: a construction sets each field that has an eager default and whose
\* key is absent from the initial data (the keyword arguments, or the store
\* of the instance viewed) to the default literal, or to the result of one
\* call of the default producer, which is a new object held by no other key
\* of any store; a key of the initial data keeps its value.  So two
\* instances with stores of their own never hold the same produced object,
\* and every instance holds the same object for a literal default.
C19_Initial ==
    IF "kwargs" \in DOMAIN last'.args THEN last'.args.kwargs.v ELSE Store(last'.args.src)
C19_Eager == {name \in DOMAIN Obj4Attrs : Obj4Attrs[name].default # PNone}
C19_Called == {name \in C19_Eager \ DOMAIN C19_Initial : callable(Obj4Attrs[name].default)}
C19_New(d, name) ==
    /\ heap'[d][name].k = "ref"
    /\ heap'[d][name].v > produced /\ heap'[d][name].v <= produced'
    /\ \A e \in DictIds : \A q \in DOMAIN heap'[e] :
          (e # d \/ q # name) => heap'[e][q] # heap'[d][name]
C19_Seeded(o) ==
    /\ produced' = produced + Cardinality(C19_Called)
    /\ \A name \in C19_Eager :
          /\ name \in DOMAIN heap'[self_dict'[o]]
          /\ IF name \in DOMAIN C19_Initial
               THEN heap'[self_dict'[o]][name] = C19_Initial[name]
             ELSE IF name \in C19_Called THEN C19_New(self_dict'[o], name)
             ELSE heap'[self_dict'[o]][name] = Obj4Attrs[name].default
C19_Own ==
    \A a, b \in Objs :
        Alive(a) /\ Alive(b) /\ self_dict[a] # self_dict[b]
        => \A name \in DOMAIN Store(a) \cap DOMAIN Store(b) :
              Store(a)[name].k = "ref" /\ Store(b)[name].k = "ref"
              => IF callable(Obj4Attrs[name].default)
                   THEN Store(a)[name] # Store(b)[name]
                   ELSE Store(a)[name] = Store(b)[name]
C19_DefaultsSeededOnce ==
    [][/\ \A o \in Objs : last'.op = "__init__" /\ last'.obj = o => C19_Seeded(o)
       /\ C19_Own']_vars
C19_Witness ==
    /\ Alive(1) /\ Alive(2) /\ self_dict[1] # self_dict[2]
    /\ last.op = "__init__" /\ last.args = [kwargs |-> PDict(EmptyDict)]
    /\ Store(1) = [foo |-> PInt(3), bar |-> Ref(1), baz |-> Ref(0)]
    /\ Store(2) = [foo |-> PInt(3), bar |-> Ref(2), baz |-> Ref(0)]

\* C24: a class statement that fails with DuplicateAttributeException leaves
\* the two global tables (registered_encoders, registered_hooks) exactly as
\* they were before the statement, so the tag of the failed class is not
\* registered afterwards.
C24_Failed == last'.op = "class" /\ last'.exc = "DuplicateAttributeException"
C24_AsStated ==
    [][C24_Failed =>
        /\ registered_encoders' = registered_encoders
        /\ registered_hooks' = registered_hooks
        /\ (TagOf("test", last'.args.name) \notin DOMAIN registered_hooks
              => TagOf("test", last'.args.name) \notin DOMAIN registered_hooks')]_vars

\* C21: the local tables of a type shadow the global ones.  JSONEncoder on a
\* value whose class has a local encoder returns what the local encoder
\* returns, also when the class has a global encoder; with a global encoder
\* only it returns the global wrapper; with neither it raises TypeError.
\* JSONObjectHook on a one-key object whose key has a local hook returns what
\* the local hook returns, also when the key has a global hook; with a global
\* hook only it returns (or raises) what that hook does; an object with another
\* key, with more than one key or with none is returned unchanged.
C21_Cls == last.args.cls
C21_Obj == last.args.obj
C21_GlobalClasses == {"set", "frozenset", "Object"}
C21_Encoding ==
    last.op = "JSONEncoder" =>
        IF C21_Obj.k \in DOMAIN jsonencoders_(C21_Cls)
          THEN /\ last.exc = "none"
               /\ last.ret = local_call(jsonencoders_(C21_Cls)[C21_Obj.k], C21_Obj).val
        ELSE IF C21_Obj.k \in C21_GlobalClasses
          THEN /\ last.exc = "none"
               /\ last.ret.k = "dict"
               /\ DOMAIN last.ret.v =
                    {CASE C21_Obj.k = "set" -> "__set__"
                       [] C21_Obj.k = "frozenset" -> "__frozenset__"
                       [] C21_Obj.k = "Object" -> dundername(C21_Obj.v.cls)}
        ELSE last.exc = "TypeError" /\ last.ret = PNone
C21_Key == CHOOSE q \in DOMAIN C21_Obj.v : TRUE
C21_Decoding ==
    last.op = "JSONObjectHook" =>
        IF Cardinality(DOMAIN C21_Obj.v) # 1
          THEN last.exc = "none" /\ last.ret = C21_Obj
        ELSE IF C21_Key \in DOMAIN jsonhooks_(C21_Cls)
          THEN /\ last.exc = "none"
               /\ last.ret = local_call(jsonhooks_(C21_Cls)[C21_Key], C21_Obj.v[C21_Key]).val
        ELSE IF C21_Key \in global_hook_keys
          THEN LET out == global_amethyst_hooks(C21_Key, C21_Obj.v[C21_Key])
               IN  IF Raised(out) THEN last.exc \in out.excs
                   ELSE last.exc = "none" /\ last.ret = out.val
        ELSE last.exc = "none" /\ last.ret = C21_Obj
C21_LocalTablesShadow == C21_Encoding /\ C21_Decoding
C21_Witness ==
    /\ last.op = "JSONEncoder" /\ last.exc = "none"
    /\ C21_Cls = "Hooked" /\ C21_Obj = PSet({PInt(1)})
    /\ C21_Obj.k \in DOMAIN jsonencoders_(C21_Cls) /\ C21_Obj.k \in C21_GlobalClasses
    /\ last.ret = PDict([q \in {"__myset__"} |-> PList(<<PInt(1)>>)])

\* C22: while an instance is immutable, no call made on it changes the
\* contents of its dict: for every step that is a call on an immutable
\* instance o, other than a construction (cls(...), cls.newFromJSON(...)),
\* the dict of o holds afterwards what it held before.
C22_Frozen(o) ==
    /\ Alive(o) /\ ~self_mutable[o]
    /\ last'.obj = o /\ last'.op \notin {"__init__", "newFromJSON"}
C22_AsStated ==
    [][\A o \in Objs : C22_Frozen(o) => Alive(o)' /\ Store(o)' = Store(o)]_vars

\* C23: the dict of an immutable instance is not changed through another
\* instance: for every step that is a construction of, or a call on, an
\* instance other than o, if o is immutable before and after the step then
\* the dict of o holds afterwards what it held before.
C23_Frozen(o) ==
    /\ Alive(o) /\ ~self_mutable[o]
    /\ Alive(o)' /\ ~self_mutable'[o]
    /\ last'.obj # o
C23_AsStated ==
    [][\A o \in Objs : C23_Frozen(o) => Store(o)' = Store(o)]_vars

\* C25: a validator made by a composition operator or a transform method
\* keeps the eager default and the lazy builder of the validator it was made
\* from: a class whose field is declared with the composed validator seeds
\* the same default at construction, and builds the same value on the first
\* read, as the class whose field is declared with the validator itself.
RECURSIVE C25_Origin(_)
C25_Origin(attr) ==
    IF attr.convert.k = "closure" THEN C25_Origin(attr.convert.v.self) ELSE attr
C25_Uncomposed(A) == [name \in DOMAIN A |-> C25_Origin(A[name])]
C25_Schema == classes[last'.args.cls].attrs
C25_Construction ==
    last'.op = "__init__" /\ "cls" \in DOMAIN last'.args =>
        heap'[self_dict'[last'.obj]] =
            init_defaults(C25_Uncomposed(C25_Schema), last'.args.kwargs.v, produced).dict
C25_FirstRead ==
    last'.op = "fget" /\ "cls" \in DOMAIN last'.args =>
        LET out == fget(C25_Origin(C25_Schema[last'.args.name]), last'.args.name,
                        Store(last'.obj))
        IN  last'.ret = out.val /\ heap'[self_dict'[last'.obj]] = out.dict
C25_AsStated == [][C25_Construction /\ C25_FirstRead]_vars

=============================================================================
